---- MODULE Spec2Model ----
(***************************************************************************)
(* Model of the oligoscreen analysis engine: the IUPAC bitmask alphabet    *)
(* (analysis/iupac.rs), the variant finders (analysis/analyzer.rs), the    *)
(* per-cell exclusion policy and the parallel length scan                  *)
(* (analysis/screener.rs, analysis/fasta.rs) and the run state of the      *)
(* application (app.rs).                                                   *)
(*                                                                         *)
(* A window is a sequence of one-character strings; a 4-bit mask is an     *)
(* integer in 0..15 (bit 0 = A, bit 1 = C, bit 2 = G, bit 3 = T).          *)
(* HashMap / HashSet iteration orders are nondeterministic choices.        *)
(***************************************************************************)
EXTENDS Integers, Sequences, FiniteSets, TLC

VARIABLES
    \* ---- variant finders (analyzer.rs) ----
    sequences,      \* the input windows: window -> multiplicity (0 = absent)
    method,         \* AnalysisMethod
    exclude_n,      \* bool
    cpc,            \* position in the finder: "input" | "greedy" | "incremental" |
                    \* "consensus" | "done"
    uncovered,      \* find_minimum_variants_greedy: HashSet of distinct windows
    remaining,      \* find_incremental_variants: remaining windows, window -> multiplicity
    variants,       \* the Vec<Variant> built so far
    fallback_taken, \* whether a verbatim "most frequent" fallback branch ran
    unique_remaining \* find_incremental_variants: the keys of remaining_counts

cover_vars == <<sequences, method, exclude_n, cpc, uncovered, remaining,
                variants, fallback_taken, unique_remaining>>

VARIABLES
    \* ---- one cell of the scan (screener.rs analyze_window) ----
    wpc,             \* "filter" while windows are classified, then "done"
    cell_total,      \* total = windows.len(): the windows extracted for the cell
    filtered,        \* the usable windows: window -> multiplicity
    gap_count,
    ambiguous_count,
    cell_result      \* the WindowAnalysisResult returned

cell_vars == <<wpc, cell_total, filtered, gap_count, ambiguous_count, cell_result>>

VARIABLES
    \* ---- one run of run_screening (screener.rs) ----
    data,              \* AlignmentData.sequences
    params,            \* AnalysisParams: mode, min/max_oligo_length, resolution
    progress_tx,       \* Option<Sender<ProgressUpdate>>: "None" | "Some"
    rx_connected,      \* the progress Receiver has not been dropped
    channel,           \* ProgressUpdates sent and not yet received
    received,          \* ProgressUpdates the consumer has received, in order
    sends,             \* history: every call of tx.send, in order
    spc,               \* "start" | "length" | "parallel" | "filter" | "single" | "done"
    oligo_length,      \* the length analyze_length is running for
    positions,         \* analyze_length: the Vec of window starts
    next_item,         \* par_iter: index of the next position handed out
    completed_count,   \* the AtomicUsize
    workers,           \* per pool thread: where it is in the map closure
    collected,         \* what collect() assembles, in completion order
    reordered,         \* history: a sort_by_key call changed the order
    results            \* the ScreeningResults being built

screen_vars == <<data, params, progress_tx, rx_connected, channel, received,
                 sends, spc, oligo_length, positions, next_item,
                 completed_count, workers, collected, reordered, results>>

VARIABLES
    \* ---- the application and its analysis threads (app.rs) ----
    template_data,            \* Option<..>: TRUE for Some
    reference_data,           \* Option<..>: TRUE for Some
    is_analyzing,
    analysis_progress,        \* Option<ProgressUpdate>: the number of the update
    progress_rx,              \* Option<Receiver>: the run whose receiver is held
    results_rx,               \* Option<Receiver>: the run whose receiver is held
    app_results,              \* results: Option<ScreeningResults>, by origin
    view_coverage_threshold,
    current_tab,
    runs_started,             \* the threads spawned so far
    threads,                  \* per run: "none" | "running" | "finished" | "died"
    progress_chan,            \* per run: the updates queued on its channel
    results_chan              \* per run: the ScreeningResults queued (0 or 1)

app_vars == <<template_data, reference_data, is_analyzing, analysis_progress,
              progress_rx, results_rx, app_results, view_coverage_threshold,
              current_tab, runs_started, threads, progress_chan, results_chan>>

VARIABLES
    \* ---- one PositionMap (aligner.rs) ----
    alignment,        \* the bio Alignment: score, xstart, ystart, operations
    template_len,
    scoring,          \* AlignmentScoringParams: match_score, min_score_fraction
    mpc,              \* "start" | "ops" | "built" | "extracted"
    x_pos,            \* target position
    y_pos,            \* template position
    op_idx,           \* operations of the alignment walked so far
    position_map,     \* the PositionMap being built, then returned
    target_seq,       \* extract_window: the target the window is taken from
    template_start,   \* extract_window: first template position of the window
    window_length,    \* extract_window: length of the window
    extracted         \* extract_window: the Option<String> returned

map_vars == <<alignment, template_len, scoring, mpc, x_pos, y_pos, op_idx,
              position_map, target_seq, template_start, window_length, extracted>>

VARIABLES
    \* ---- one call of collect_matches (pairwise.rs) ----
    oligo,            \* the query bytes
    references,       \* the reference sequences, in order
    max_mismatches,   \* PairwiseParams.max_mismatches
    mtc,              \* "start" | "aligned" | "loop" | "done"
    ref_idx,          \* references the loop has processed
    local_alignment,  \* the Alignment aligner.local returned for the latest
    matched,          \* Vec<String>
    no_match_count

match_vars == <<oligo, references, max_mismatches, mtc, ref_idx,
                local_alignment, matched, no_match_count>>

VARIABLES
    \* ---- calls of the pure functions (analyzer.rs, iupac.rs) ----
    th_variants,      \* calculate_variants_for_threshold: the Variant list
    th_total,         \* calculate_variants_for_threshold: total
    th_threshold,     \* calculate_variants_for_threshold: threshold
    th_result,        \* Option of the (usize, f64) returned
    rt_byte,          \* base_to_bit: the byte looked up
    rt_mask,          \* Option of the mask base_to_bit returned
    rt_code           \* Option of IUPAC_FROM_MASK[mask]

fn_vars == <<th_variants, th_total, th_threshold, th_result, rt_byte, rt_mask,
             rt_code>>

VARIABLES
    \* ---- calls of the two consensus matchers (iupac.rs) ----
    mt_seq,           \* the sequence matched
    mt_consensus,     \* the consensus (pattern) it is matched against
    mt_bytes,         \* Option of what sequence_matches_consensus_bytes returned
    mt_hashset        \* Option of what sequence_matches_consensus returned

cmp_vars == <<mt_seq, mt_consensus, mt_bytes, mt_hashset>>

VARIABLES
    \* ---- align_all_sequences (aligner.rs) ----
    al_template_len,   \* template.sequence.len()
    al_sequence_set,   \* sequence_set.sequences, the targets in input order
    al_scoring,        \* AlignmentScoringParams: match_score, min_score_fraction
    al_progress_tx,    \* whether progress_tx is Some
    al_completed,      \* the AtomicUsize completed
    al_items,          \* per target: "todo" | "counted" | "mapped", and its done
    al_alignments,     \* per target: the Alignment semiglobal returned
    al_position_maps,  \* the slots of the collected Vec<PositionMap>
    al_channel,        \* the ProgressUpdate messages sent, as current_position
    al_results         \* the AlignmentResults returned

al_vars == <<al_template_len, al_sequence_set, al_scoring, al_progress_tx,
             al_completed, al_items, al_alignments, al_position_maps,
             al_channel, al_results>>

VARIABLES
    \* ---- the results view (app.rs) ----
    rv_positions,      \* the PositionResults of a LengthResult of self.results
    rv_threshold,      \* view_coverage_threshold
    rv_applied         \* the threshold the cells were last computed with

rv_vars == <<rv_positions, rv_threshold, rv_applied>>

vars == <<cover_vars, cell_vars, screen_vars, app_vars, map_vars, match_vars,
          fn_vars, cmp_vars, al_vars, rv_vars>>

\* the variables the variant finders leave alone
not_cover_vars == <<cell_vars, screen_vars, app_vars, map_vars,
                   match_vars, fn_vars, cmp_vars, al_vars, rv_vars>>

\* the variables analyze_window leaves alone
not_cell_vars == <<cover_vars, screen_vars, app_vars, map_vars,
                   match_vars, fn_vars, cmp_vars, al_vars, rv_vars>>

\* the variables run_screening leaves alone
not_screen_vars == <<cover_vars, cell_vars, app_vars, map_vars,
                   match_vars, fn_vars, cmp_vars, al_vars, rv_vars>>

\* the variables the application leaves alone
not_app_vars == <<cover_vars, cell_vars, screen_vars, map_vars,
                   match_vars, fn_vars, cmp_vars, al_vars, rv_vars>>

\* the variables a PositionMap leaves alone
not_map_vars == <<cover_vars, cell_vars, screen_vars, app_vars, match_vars,
                  fn_vars, cmp_vars, al_vars, rv_vars>>

\* the variables collect_matches leaves alone
not_match_vars == <<cover_vars, cell_vars, screen_vars, app_vars, map_vars,
                    fn_vars, cmp_vars, al_vars, rv_vars>>

\* the variables the pure functions leave alone
not_fn_vars == <<cover_vars, cell_vars, screen_vars, app_vars, map_vars,
                 match_vars, cmp_vars, al_vars, rv_vars>>

\* the variables the consensus matchers leave alone
not_cmp_vars == <<cover_vars, cell_vars, screen_vars, app_vars, map_vars,
                  match_vars, fn_vars, al_vars, rv_vars>>

\* the variables align_all_sequences leaves alone
not_al_vars == <<cover_vars, cell_vars, screen_vars, app_vars, map_vars,
                 match_vars, fn_vars, cmp_vars, rv_vars>>

\* the variables the results view leaves alone
not_rv_vars == <<cover_vars, cell_vars, screen_vars, app_vars, map_vars,
                 match_vars, fn_vars, cmp_vars, al_vars>>

\* Option<usize>
NoneOpt == [some |-> FALSE, val |-> 0]

Some(n) == [some |-> TRUE, val |-> n]

----------------------------------------------------------------------------
(* Bounds of the model *)

\* most windows handed to a variant finder
MaxSeqs == 4
\* largest max_ambiguities / Some(n) cap drawn
MaxAmb == 1

\* the windows a finder input is drawn from: every base occurs at the first
\* position (so that N can arise) and two bases at the second
InputWindows ==
    {<<"A", "A">>, <<"C", "A">>, <<"G", "A">>, <<"T", "A">>,
     <<"A", "G">>, <<"C", "G">>}

\* most windows extracted for one cell
MaxCell == 100
\* length of the windows of the modelled cell
CellLen == 2

\* longest alignment screened with every parameter setting
MaxAlignment == 3
\* longest oligo length screened
MaxOligo == 2
\* largest resolution (step between window starts)
MaxResolution == 2
\* threads of the rayon pool
NumThreads == 2

\* the long runs screened besides (oligo length 1, resolution 1): one cell
\* more than the progress period with two threads; exactly one period and
\* one cell more than two periods with one thread
LongRuns ==
    {[len |-> 11, threads |-> 2], [len |-> 10, threads |-> 1],
     [len |-> 21, threads |-> 1]}

\* most analysis runs started in the application
MaxRuns == 2
\* most progress updates one analysis thread sends
MaxProgress == 2

\* most operations of an alignment handed to PositionMap::from_alignment
MaxOps == 3
\* longest template a PositionMap is built for
MaxTemplate == 2
\* largest match_score of the scoring parameters
MaxMatchScore == 2

\* most reference sequences handed to collect_matches
MaxRefs == 2
\* largest max_mismatches of the pairwise parameters
MaxMismatch == 1
\* most windows of a list whose incremental steps are followed one by one
MaxRemaining == 3
\* longest sequence and consensus handed to the matchers
MaxPattern == 2
\* most target sequences handed to align_all_sequences
MaxTargets == 2
\* most cells of the screening whose thresholds are recalculated
MaxPositions == 2
\* most variants handed to calculate_variants_for_threshold
MaxVariants == 3
\* total handed to calculate_variants_for_threshold
ThresholdTotal == 10

\* the characters a window of the modelled cell is made of
CellChars == {"A", "-", "N"}

\* longest alignment analyzed as a single region
MaxRegion == 2
\* the characters of the alignments analyzed as a single region
RegionChars == {"A", "C", "N", "-"}

\* target_percentage values drawn for the incremental method
TargetPcts == {0, 50, 100}

----------------------------------------------------------------------------
(* iupac.rs: bitmask alphabet *)

\* take(50) of the seed loops
SeedLimit == 50

IUPAC_FROM_MASK ==
    <<"?", "A", "C", "M", "G", "R", "S", "V",
      "T", "W", "Y", "H", "K", "D", "B", "N">>

\* mutant: the masks of K and M are exchanged
base_to_bit_exchanged(b) ==
    CASE b = "A" -> 1
      [] b = "C" -> 2
      [] b = "G" -> 4
      [] b = "T" -> 8
      [] b = "R" -> 5
      [] b = "Y" -> 10
      [] b = "S" -> 6
      [] b = "W" -> 9
      [] b = "K" -> 3
      [] b = "M" -> 12
      [] b = "B" -> 14
      [] b = "D" -> 13
      [] b = "H" -> 11
      [] b = "V" -> 7
      [] b = "N" -> 15
      [] OTHER -> 0

base_to_bit(b) ==
    CASE b = "A" -> 1
      [] b = "C" -> 2
      [] b = "G" -> 4
      [] b = "T" -> 8
      [] b = "R" -> 5
      [] b = "Y" -> 10
      [] b = "S" -> 6
      [] b = "W" -> 9
      [] b = "K" -> 12
      [] b = "M" -> 3
      [] b = "B" -> 14
      [] b = "D" -> 13
      [] b = "H" -> 11
      [] b = "V" -> 7
      [] b = "N" -> 15
      [] OTHER -> 0

iupac_to_mask(b) == base_to_bit(b)

\* the set of bit indices set in a 4-bit mask
Bits(m) == {i \in 0..3 : (m \div (2 ^ i)) % 2 = 1}

BitVal(S, i) == IF i \in S THEN 2 ^ i ELSE 0

\* the 4-bit mask with exactly the bits of S set
MaskOfBits(S) == BitVal(S, 0) + BitVal(S, 1) + BitVal(S, 2) + BitVal(S, 3)

\* the u8 operations on 4-bit masks, tabulated once
OnesTable == [m \in 0..15 |-> Cardinality(Bits(m))]

OrTable == [a \in 0..15 |-> [b \in 0..15 |-> MaskOfBits(Bits(a) \cup Bits(b))]]

AndTable == [a \in 0..15 |-> [b \in 0..15 |-> MaskOfBits(Bits(a) \cap Bits(b))]]

\* u8::count_ones on a 4-bit mask
count_ones(m) == OnesTable[m]

\* a | b on 4-bit masks
BitOr(a, b) == OrTable[a][b]

\* a & b on 4-bit masks
BitAnd(a, b) == AndTable[a][b]

\* mutant: only the first byte is compared
sequence_matches_consensus_bytes_first(seq, consensus) ==
    /\ Len(seq) = Len(consensus)
    /\ \A i \in 1..(IF Len(seq) > 0 THEN 1 ELSE 0) :
          BitAnd(base_to_bit(seq[i]), iupac_to_mask(consensus[i])) # 0

sequence_matches_consensus_bytes(seq, consensus) ==
    /\ Len(seq) = Len(consensus)
    /\ \A i \in 1..Len(seq) :
          BitAnd(base_to_bit(seq[i]), iupac_to_mask(consensus[i])) # 0

\* the keys of the IUPAC_TO_BASES map
IupacCodes ==
    {"A", "C", "G", "T", "R", "Y", "S", "W", "K", "M", "B", "D", "H", "V", "N"}

\* IUPAC code -> the set of bases it stands for
IUPAC_TO_BASES ==
    [c \in IupacCodes |->
        CASE c = "A" -> {"A"}
          [] c = "C" -> {"C"}
          [] c = "G" -> {"G"}
          [] c = "T" -> {"T"}
          [] c = "R" -> {"A", "G"}
          [] c = "Y" -> {"C", "T"}
          [] c = "S" -> {"G", "C"}
          [] c = "W" -> {"A", "T"}
          [] c = "K" -> {"G", "T"}
          [] c = "M" -> {"A", "C"}
          [] c = "B" -> {"C", "G", "T"}
          [] c = "D" -> {"A", "G", "T"}
          [] c = "H" -> {"A", "C", "T"}
          [] c = "V" -> {"A", "C", "G"}
          [] c = "N" -> {"A", "C", "G", "T"}]

\* the HashSet-based matcher
sequence_matches_consensus(seq, consensus) ==
    /\ Len(seq) = Len(consensus)
    /\ \A i \in 1..Len(seq) :
          IF consensus[i] \in IupacCodes
          THEN seq[i] \in IUPAC_TO_BASES[consensus[i]]
          ELSE seq[i] = consensus[i]

----------------------------------------------------------------------------
(* analyzer.rs: helpers on counted windows *)

\* the keys of a HashMap<&str, usize> kept as window -> multiplicity
Keys(counts) == {w \in DOMAIN counts : counts[w] > 0}

RECURSIVE SumCounts(_, _)
\* .map(|s| counts.get(s)).sum() over a set of windows
SumCounts(S, counts) ==
    IF S = {} THEN 0
    ELSE LET w == CHOOSE x \in S : TRUE
         IN  counts[w] + SumCounts(S \ {w}, counts)

\* sequences.len()
TotalOf(counts) == SumCounts(Keys(counts), counts)

RECURSIVE Orders(_)
\* every iteration order a HashSet / HashMap over S may have
Orders(S) ==
    IF S = {} THEN {<<>>}
    ELSE UNION {{<<x>> \o o : o \in Orders(S \ {x})} : x \in S}

RECURSIVE ListOf(_)
\* the elements of a set as a list, in some order
ListOf(S) ==
    IF S = {} THEN <<>>
    ELSE LET w == CHOOSE x \in S : TRUE IN <<w>> \o ListOf(S \ {w})

RECURSIVE SortDescFrom(_, _, _)
SortDescFrom(order, counts, c) ==
    IF c = 0 THEN <<>>
    ELSE SelectSeq(order, LAMBDA s : counts[s] = c)
            \o SortDescFrom(order, counts, c - 1)

\* mutant: the keys are left in the iteration order of the map
SortByCountDesc_unsorted(order, counts) == order

\* sort_by_key(|s| Reverse(count)): stable, so ties keep the iteration order
SortByCountDesc(order, counts) == SortDescFrom(order, counts, TotalOf(counts))

\* iter().take(n)
Take(s, n) == SubSeq(s, 1, IF n < Len(s) THEN n ELSE Len(s))

RECURSIVE MaxByCountFrom(_, _, _, _)
MaxByCountFrom(order, counts, k, best) ==
    IF k > Len(order) THEN best
    ELSE MaxByCountFrom(order, counts, k + 1,
            IF counts[order[k]] >= counts[best] THEN order[k] ELSE best)

\* iter().max_by_key(count): the last of the maximal elements in iteration order
MaxByCount(order, counts) == MaxByCountFrom(order, counts, 2, order[1])

\* (count as f64 / total) * 100.0, kept as the exact fraction num / den
Percentage(count, total) == [num |-> 100 * count, den |-> total]

Variant(seq, count, total) ==
    [sequence |-> seq, count |-> count, percentage |-> Percentage(count, total)]

----------------------------------------------------------------------------
(* analyzer.rs: consensus construction *)

RECURSIVE ConsensusFromMaskAt(_, _, _, _, _)
ConsensusFromMaskAt(mask, i, consensus, amb_count, excl) ==
    IF i > Len(mask)
    THEN [consensus |-> consensus, amb_count |-> amb_count, is_valid |-> TRUE]
    ELSE LET m    == mask[i]
             code == IUPAC_FROM_MASK[m + 1]
             amb  == IF count_ones(m) > 1 THEN amb_count + 1 ELSE amb_count
         IN  IF count_ones(m) > 1 /\ excl /\ code = "N"
             THEN [consensus |-> consensus, amb_count |-> amb, is_valid |-> FALSE]
             ELSE ConsensusFromMaskAt(mask, i + 1, Append(consensus, code), amb, excl)

\* (consensus, ambiguity_count, is_valid)
consensus_from_mask(mask, excl) == ConsensusFromMaskAt(mask, 1, <<>>, 0, excl)

\* mutant: group_mask is left as allocated, all zero
SeedMask_zero(seed_seq) == [pos \in 1..Len(seed_seq) |-> 0]

\* group_mask[pos] = base_to_bit(seed_bytes[pos])
SeedMask(seed_seq) == [pos \in 1..Len(seed_seq) |-> base_to_bit(seed_seq[pos])]

RECURSIVE TrialValidAt_lax(_, _, _, _, _, _)
\* mutant: the limit is compared before the count is incremented
TrialValidAt_lax(group_mask, other, pos, trial_amb_count, limit, excl) ==
    IF pos > Len(group_mask) THEN TRUE
    ELSE LET m == BitOr(group_mask[pos], base_to_bit(other[pos]))
         IN  IF count_ones(m) > 1
             THEN IF (excl /\ m = 15) \/ trial_amb_count > limit
                  THEN FALSE
                  ELSE TrialValidAt_lax(group_mask, other, pos + 1,
                                        trial_amb_count + 1, limit, excl)
             ELSE TrialValidAt_lax(group_mask, other, pos + 1,
                                   trial_amb_count, limit, excl)

RECURSIVE TrialValidAt_strict(_, _, _, _, _, _)
\* mutant: a candidate that reaches the limit exactly is rejected
TrialValidAt_strict(group_mask, other, pos, trial_amb_count, limit, excl) ==
    IF pos > Len(group_mask) THEN TRUE
    ELSE LET m == BitOr(group_mask[pos], base_to_bit(other[pos]))
         IN  IF count_ones(m) > 1
             THEN IF (excl /\ m = 15) \/ trial_amb_count + 1 >= limit
                  THEN FALSE
                  ELSE TrialValidAt_strict(group_mask, other, pos + 1,
                                           trial_amb_count + 1, limit, excl)
             ELSE TrialValidAt_strict(group_mask, other, pos + 1,
                                      trial_amb_count, limit, excl)

RECURSIVE TrialValidAt(_, _, _, _, _, _)
TrialValidAt(group_mask, other, pos, trial_amb_count, limit, excl) ==
    IF pos > Len(group_mask) THEN TRUE
    ELSE LET m == BitOr(group_mask[pos], base_to_bit(other[pos]))
         IN  IF count_ones(m) > 1
             THEN IF (excl /\ m = 15) \/ trial_amb_count + 1 > limit
                  THEN FALSE
                  ELSE TrialValidAt(group_mask, other, pos + 1,
                                    trial_amb_count + 1, limit, excl)
             ELSE TrialValidAt(group_mask, other, pos + 1,
                               trial_amb_count, limit, excl)

\* the trial of one candidate against the running mask (trial_valid)
TrialValid(group_mask, other, limit, excl) ==
    TrialValidAt(group_mask, other, 1, 0, limit, excl)

RECURSIVE FoldFrom(_, _, _, _, _, _)
FoldFrom(group_mask, seed_seq, order, k, limit, excl) ==
    IF k > Len(order) THEN group_mask
    ELSE LET other == order[k]
         IN  IF other = seed_seq
             THEN FoldFrom(group_mask, seed_seq, order, k + 1, limit, excl)
             ELSE IF TrialValid(group_mask, other, limit, excl)
                  THEN FoldFrom([pos \in 1..Len(group_mask) |->
                                    BitOr(group_mask[pos], base_to_bit(other[pos]))],
                                seed_seq, order, k + 1, limit, excl)
                  ELSE FoldFrom(group_mask, seed_seq, order, k + 1, limit, excl)

\* the seed's mask after trying to add every other sequence in iteration order
FoldGroupMask(seed_seq, order, limit, excl) ==
    FoldFrom(SeedMask(seed_seq), seed_seq, order, 1, limit, excl)

\* mutant: no sequence is found to match
CoverageOf_none(S, consensus) == {}

\* the sequences of S that pattern-match the consensus
CoverageOf(S, consensus) ==
    {seq \in S : sequence_matches_consensus_bytes(seq, consensus)}

----------------------------------------------------------------------------
(* analyzer.rs: find_best_consensus (bounded-ambiguity method) *)

\* one seed of find_best_consensus: the candidate it yields; valid is FALSE when
\* consensus_from_mask reports it invalid (the seed is skipped)
GreedyCandidate(seed_seq, order, seq_counts, max_ambiguities, excl) ==
    LET group_mask == FoldGroupMask(seed_seq, order, max_ambiguities, excl)
        Result(c, coverage) ==
            [valid |-> c.is_valid, consensus |-> c.consensus, coverage |-> coverage,
             score |-> SumCounts(coverage, seq_counts)]
    IN  CHOOSE r \in
            {Result(c, CoverageOf({order[k] : k \in 1..Len(order)}, c.consensus)) :
                c \in {consensus_from_mask(group_mask, excl)}} : TRUE

RECURSIVE BestConsensusFrom(_, _, _, _, _, _, _)
BestConsensusFrom(seeds, k, order, seq_counts, max_ambiguities, excl, best) ==
    IF k > Len(seeds) THEN best
    ELSE BestConsensusFrom(seeds, k + 1, order, seq_counts, max_ambiguities, excl,
            CHOOSE b \in
                {IF cand.valid /\ cand.score > best.score THEN cand ELSE best :
                    cand \in {GreedyCandidate(seeds[k], order, seq_counts,
                                              max_ambiguities, excl)}} : TRUE)

\* order is the iteration order of the uncovered HashSet
find_best_consensus(order, seq_counts, max_ambiguities, excl) ==
    LET uncovered_sorted == SortByCountDesc(order, seq_counts)
        seq_len == IF Len(uncovered_sorted) > 0 THEN Len(uncovered_sorted[1]) ELSE 0
        empty   == [valid |-> TRUE, consensus |-> <<>>, coverage |-> {}, score |-> 0]
    IN  IF seq_len = 0 THEN empty
        ELSE BestConsensusFrom(Take(uncovered_sorted, SeedLimit), 1, order,
                               seq_counts, max_ambiguities, excl, empty)

----------------------------------------------------------------------------
(* analyzer.rs: find_incremental_consensus (incremental method) *)

\* mutant: the coverage counts distinct sequences, not their multiplicities
IncrementalCandidate_unweighted(seed_seq, order, remaining_counts, amb_level, excl) ==
    LET group_mask == FoldGroupMask(seed_seq, order, amb_level, excl)
        Result(c, coverage) ==
            [valid |-> c.is_valid /\ ~(c.amb_count > amb_level),
             consensus |-> c.consensus,
             coverage_count |-> Cardinality(coverage)]
    IN  CHOOSE r \in
            {Result(c, CoverageOf({order[k] : k \in 1..Len(order)}, c.consensus)) :
                c \in {consensus_from_mask(group_mask, excl)}} : TRUE

\* one seed at one ambiguity level: the candidate; valid is FALSE when skipped
IncrementalCandidate(seed_seq, order, remaining_counts, amb_level, excl) ==
    LET group_mask == FoldGroupMask(seed_seq, order, amb_level, excl)
        Result(c, coverage) ==
            [valid |-> c.is_valid /\ ~(c.amb_count > amb_level),
             consensus |-> c.consensus,
             coverage_count |-> SumCounts(coverage, remaining_counts)]
    IN  CHOOSE r \in
            {Result(c, CoverageOf({order[k] : k \in 1..Len(order)}, c.consensus)) :
                c \in {consensus_from_mask(group_mask, excl)}} : TRUE

\* the update of (best_consensus, best_coverage_count, found_target) by one candidate
IncrementalUpdate(best, cand, target_count) ==
    IF ~cand.valid THEN best
    ELSE IF cand.coverage_count >= target_count
         THEN IF ~best.found_target \/ cand.coverage_count > best.coverage_count
              THEN [consensus |-> cand.consensus,
                    coverage_count |-> cand.coverage_count,
                    found_target |-> TRUE]
              ELSE best
         ELSE IF cand.coverage_count > best.coverage_count
              THEN [consensus |-> cand.consensus,
                    coverage_count |-> cand.coverage_count,
                    found_target |-> best.found_target]
              ELSE best

RECURSIVE IncrementalSeedsFrom(_, _, _, _, _, _, _, _)
IncrementalSeedsFrom(seeds, k, order, counts, amb_level, excl, target_count, best) ==
    IF k > Len(seeds) THEN best
    ELSE IncrementalSeedsFrom(seeds, k + 1, order, counts, amb_level, excl,
            target_count,
            CHOOSE b \in
                {IncrementalUpdate(best, cand, target_count) :
                    cand \in {IncrementalCandidate(seeds[k], order, counts,
                                                   amb_level, excl)}} : TRUE)

RECURSIVE IncrementalLevelsFrom_all(_, _, _, _, _, _, _)
\* mutant: the levels are not left when the target is found
IncrementalLevelsFrom_all(amb_level, max_amb_level, order, counts, excl, target_count, best) ==
    IF amb_level > max_amb_level THEN best
    ELSE IncrementalLevelsFrom_all(amb_level + 1, max_amb_level, order, counts,
            excl, target_count,
            IncrementalSeedsFrom(
                Take(SortByCountDesc(order, counts), SeedLimit), 1, order,
                counts, amb_level, excl, target_count, best))

RECURSIVE IncrementalLevelsFrom(_, _, _, _, _, _, _)
\* `for amb_level in 0..=max_amb_level`, left when found_target is set
IncrementalLevelsFrom(amb_level, max_amb_level, order, counts, excl, target_count, best) ==
    IF amb_level > max_amb_level \/ best.found_target THEN best
    ELSE IncrementalLevelsFrom(amb_level + 1, max_amb_level, order, counts,
            excl, target_count,
            IncrementalSeedsFrom(
                Take(SortByCountDesc(order, counts), SeedLimit), 1, order,
                counts, amb_level, excl, target_count, best))

\* order is unique_remaining (the key order of the remaining_counts HashMap);
\* max_ambiguities is an Option
find_incremental_consensus(order, remaining_counts, target_count, excl, max_ambiguities) ==
    IF Len(order) = 0
    THEN [consensus |-> <<>>, coverage_count |-> 0, fallback |-> FALSE]
    ELSE LET seq_len == Len(order[1])
             max_amb_level == IF max_ambiguities.some THEN max_ambiguities.val
                              ELSE seq_len
             best == IncrementalLevelsFrom(0, max_amb_level, order, remaining_counts,
                        excl, target_count,
                        [consensus |-> <<>>, coverage_count |-> 0,
                         found_target |-> FALSE])
         IN  IF best.consensus = <<>>
             THEN LET most_freq == MaxByCount(order, remaining_counts)
                  IN  [consensus |-> most_freq,
                       coverage_count |-> remaining_counts[most_freq],
                       fallback |-> TRUE]
             ELSE [consensus |-> best.consensus,
                   coverage_count |-> best.coverage_count,
                   fallback |-> FALSE]

\* ((target_percentage / 100.0) * remaining_total as f64).ceil(); the f64
\* product rounds to this integer ceiling for every remaining_total below 25
TargetCount(target_percentage, remaining_total) ==
    (target_percentage * remaining_total + 99) \div 100

\* create_consensus_from_seqs: the position-wise union of a list of windows;
\* seqs is the list as a non-empty sequence of equal-length windows
create_consensus_from_seqs(seqs, excl) ==
    LET seq_len == Len(seqs[1])
        RECURSIVE MaskAt(_, _, _)
        MaskAt(pos, k, mask) ==
            IF k > Len(seqs) THEN mask
            ELSE MaskAt(pos, k + 1, BitOr(mask, base_to_bit(seqs[k][pos])))
        RECURSIVE At(_, _, _)
        At(pos, consensus, ambiguity_count) ==
            IF pos > seq_len
            THEN [consensus |-> consensus, amb_count |-> ambiguity_count,
                  is_valid |-> TRUE]
            ELSE LET mask == MaskAt(pos, 1, 0)
                     code == IUPAC_FROM_MASK[mask + 1]
                 IN  IF count_ones(mask) > 1 /\ excl /\ code = "N"
                     THEN [consensus |-> consensus, amb_count |-> ambiguity_count,
                           is_valid |-> FALSE]
                     ELSE At(pos + 1, Append(consensus, code),
                             IF count_ones(mask) > 1 THEN ambiguity_count + 1
                             ELSE ambiguity_count)
    IN  At(1, <<>>, 0)

\* find_variants_no_ambiguities; order is the iteration order of the counts map
find_variants_no_ambiguities(order, counts) ==
    LET sorted == SortByCountDesc(order, counts)
    IN  [i \in 1..Len(sorted) |->
            Variant(sorted[i], counts[sorted[i]], TotalOf(counts))]

RECURSIVE ThresholdFrom_strict(_, _, _, _)
\* mutant: the cumulative percentage has to exceed the threshold
ThresholdFrom_strict(vs, i, cumulative, threshold) ==
    IF i > Len(vs) THEN [needed |-> Len(vs), coverage |-> cumulative]
    ELSE LET c == [num |-> cumulative.num + vs[i].percentage.num,
                   den |-> vs[i].percentage.den]
         IN  IF c.num > threshold * c.den
             THEN [needed |-> i, coverage |-> c]
             ELSE ThresholdFrom_strict(vs, i + 1, c, threshold)

RECURSIVE ThresholdFrom(_, _, _, _)
\* calculate_variants_for_threshold: the loop over the variants, from the
\* i-th on
ThresholdFrom(vs, i, cumulative, threshold) ==
    IF i > Len(vs) THEN [needed |-> Len(vs), coverage |-> cumulative]
    ELSE LET c == [num |-> cumulative.num + vs[i].percentage.num,
                   den |-> vs[i].percentage.den]
         IN  IF c.num >= threshold * c.den
             THEN [needed |-> i, coverage |-> c]
             ELSE ThresholdFrom(vs, i + 1, c, threshold)

\* calculate_variants_for_threshold; percentages are exact fractions over the
\* common denominator total
calculate_variants_for_threshold(vs, n, threshold) ==
    IF Len(vs) = 0 \/ n = 0
    THEN [needed |-> 0, coverage |-> [num |-> 0, den |-> 1]]
    ELSE ThresholdFrom(vs, 1, [num |-> 0, den |-> n], threshold)

----------------------------------------------------------------------------
(* screener.rs / fasta.rs: one cell of the scan *)

\* MAX_EXCLUDED_PERCENTAGE
MAX_EXCLUDED_PERCENTAGE == 20

\* AnalysisParams::default().coverage_threshold
DefaultCoverageThreshold == 95

is_gap(c) == c \in {"-", "."}

is_ambiguous_base(c) ==
    c \in {"R", "Y", "S", "W", "K", "M", "B", "D", "H", "V", "N"}

window_has_gaps(window) == \E i \in 1..Len(window) : is_gap(window[i])

window_has_ambiguous(window) ==
    \E i \in 1..Len(window) : is_ambiguous_base(window[i])

\* the windows extract_window may hand to the cell
CellWindows == [1..CellLen -> CellChars]

\* WindowAnalysisResult::default()
DefaultResult ==
    [variants |-> <<>>, total_sequences |-> 0, sequences_analyzed |-> 0,
     variants_for_threshold |-> 0, coverage_at_threshold |-> [num |-> 0, den |-> 1],
     skipped |-> FALSE, skip_reason |-> "None"]

\* mutant: the skipped flag is left at its default
SkippedResult_unflagged(reason, n) ==
    [DefaultResult EXCEPT !.skip_reason = reason, !.total_sequences = n]

\* a skipped result: skipped, skip_reason and total_sequences over the default
SkippedResult(reason, n) ==
    [DefaultResult EXCEPT !.skipped = TRUE, !.skip_reason = reason,
                          !.total_sequences = n]

\* (count as f64 / total as f64) * 100.0 > MAX_EXCLUDED_PERCENTAGE; the f64
\* comparison agrees with the exact one for every total below 400
ExceedsMaxExcluded(count, n) == count * 100 > MAX_EXCLUDED_PERCENTAGE * n

\* analyze_sequences with the exact method (the method the cell scan is
\* modelled with); seqs is window -> multiplicity
analyze_sequences_exact(seqs, threshold) ==
    IF TotalOf(seqs) = 0
    THEN [DefaultResult EXCEPT !.skipped = TRUE,
                               !.skip_reason = "No sequences to analyze"]
    ELSE LET vs == find_variants_no_ambiguities(ListOf(Keys(seqs)), seqs)
             t  == calculate_variants_for_threshold(vs, TotalOf(seqs), threshold)
         IN  [variants |-> vs, total_sequences |-> TotalOf(seqs),
              sequences_analyzed |-> TotalOf(seqs), no_match_count |-> 0,
              variants_for_threshold |-> t.needed,
              coverage_at_threshold |-> t.coverage,
              skipped |-> FALSE, skip_reason |-> "None"]

\* analyze_window after the windows are extracted and classified
WindowDecision(n, usable, gaps, ambiguous) ==
    IF n = 0 THEN SkippedResult("No sequences at this position", 0)
    ELSE IF ExceedsMaxExcluded(gaps, n) THEN SkippedResult("Too many gaps", n)
    ELSE IF ExceedsMaxExcluded(ambiguous, n)
         THEN SkippedResult("Too many ambiguous bases", n)
    ELSE IF TotalOf(usable) = 0
         THEN SkippedResult("No valid sequences after filtering", n)
    ELSE [analyze_sequences_exact(usable, DefaultCoverageThreshold)
             EXCEPT !.total_sequences = n,
                    !.sequences_analyzed = TotalOf(usable)]

\* extract_window: the slices [start, start + length) of the sequences long
\* enough to have one
extract_window(d, start, length) ==
    LET fits(seq) == start + length <= Len(seq)
        kept == SelectSeq(d, fits)
    IN  [i \in 1..Len(kept) |-> SubSeq(kept[i], start + 1, start + length)]

RECURSIVE FilterFrom(_, _, _)
FilterFrom(windows, i, acc) ==
    IF i > Len(windows) THEN acc
    ELSE FilterFrom(windows, i + 1,
            IF window_has_gaps(windows[i])
            THEN [acc EXCEPT !.gap_count = @ + 1]
            ELSE IF window_has_ambiguous(windows[i])
                 THEN [acc EXCEPT !.ambiguous_count = @ + 1]
                 ELSE [acc EXCEPT !.filtered = Append(@, windows[i])])

\* filter_window_sequences
filter_window_sequences(windows) ==
    FilterFrom(windows, 1,
               [filtered |-> <<>>, gap_count |-> 0, ambiguous_count |-> 0])

\* a list of windows as window -> multiplicity
CountsOf(list) ==
    [w \in {list[i] : i \in 1..Len(list)} |->
        Cardinality({i \in 1..Len(list) : list[i] = w})]

\* analyze_window from the filter on
WindowResult(windows) ==
    CHOOSE r \in {WindowDecision(Len(windows), CountsOf(f.filtered),
                                 f.gap_count, f.ambiguous_count)
                     : f \in {filter_window_sequences(windows)}} : TRUE

\* analyze_window
analyze_window(d, position, length) ==
    CHOOSE r \in {WindowResult(windows)
                     : windows \in {extract_window(d, position, length)}} : TRUE

NoWindows == [w \in CellWindows |-> 0]

CellIdle ==
    /\ wpc = "filter"
    /\ cell_total = 0
    /\ filtered = NoWindows
    /\ gap_count = 0
    /\ ambiguous_count = 0
    /\ cell_result = DefaultResult

CoverIdle ==
    /\ sequences = [w \in InputWindows |-> 0]
    /\ method = [kind |-> "NoAmbiguities", max_amb |-> NoneOpt, target_pct |-> 0]
    /\ exclude_n = FALSE
    /\ cpc = "input"
    /\ uncovered = {}
    /\ remaining = [w \in InputWindows |-> 0]
    /\ variants = <<>>
    /\ fallback_taken = FALSE
    /\ unique_remaining = <<>>

----------------------------------------------------------------------------
(* app.rs: the state of a freshly constructed application *)

Runs == 1..MaxRuns

\* Tab
Tabs == {"Input", "Analysis", "Results"}

\* the thresholds a results file may carry
LoadedThresholds == {90, 95}

\* results loaded from a file rather than received from a run
FromFile == 0

\* OligoscreenApp::new
AppIdle ==
    /\ template_data = FALSE
    /\ reference_data = FALSE
    /\ is_analyzing = FALSE
    /\ analysis_progress = NoneOpt
    /\ progress_rx = NoneOpt
    /\ results_rx = NoneOpt
    /\ app_results = NoneOpt
    /\ view_coverage_threshold = DefaultCoverageThreshold
    /\ current_tab = "Input"
    /\ runs_started = 0
    /\ threads = [r \in Runs |-> "none"]
    /\ progress_chan = [r \in Runs |-> <<>>]
    /\ results_chan = [r \in Runs |-> 0]

----------------------------------------------------------------------------
(* aligner.rs: PositionMap.  Template and target positions are 0-based as  *)
(* in the source; template_to_target[i + 1] is the entry of template       *)
(* position i.  min_score_fraction is kept in tenths.                      *)

\* AlignmentOperation: Match | Subst | Del | Ins | Xclip(len) | Yclip(len)
Operation(kind, n) == [op |-> kind, len |-> n]

\* the operations an Alignment may list
Operations ==
    {Operation(kind, 0) : kind \in {"Match", "Subst", "Del", "Ins"}}
    \cup {Operation("Xclip", 2), Operation("Yclip", 1)}

\* Option<String>::None
NoWindow == [some |-> FALSE, val |-> <<>>]

\* the alignment of a target identical to the template
IdentityAlignment(n, match_score) ==
    [score |-> n * match_score, xstart |-> 0, ystart |-> 0,
     operations |-> [k \in 1..n |-> Operation("Match", 0)]]

\* the calls of from_alignment: every alignment of at most MaxOps
\* operations, scored 0 under match_score 1 and min_score_fraction 0.5, and
\* the identity alignment under every scoring
MapInputs ==
    {[alignment |-> [score |-> 0, xstart |-> st[1], ystart |-> st[2],
                     operations |-> l],
      template_len |-> n,
      scoring |-> [match_score |-> 1, min_score_fraction |-> 5]] :
        l \in UNION {[1..k -> Operations] : k \in 0..MaxOps},
        n \in 0..MaxTemplate, st \in {<<0, 0>>, <<1, 0>>, <<0, 1>>}}
    \cup {[alignment |-> IdentityAlignment(n, m), template_len |-> n,
           scoring |-> [match_score |-> m, min_score_fraction |-> f]] :
             n \in 0..MaxTemplate, m \in 0..MaxMatchScore,
             f \in {-5, 0, 5, 10, 15}}

\* mutant: the score fraction has to exceed min_score_fraction
IsValid_strict(score, max_possible_score, min_score_fraction) ==
    IF max_possible_score > 0
    THEN score * 10 > min_score_fraction * max_possible_score
    ELSE 0 > min_score_fraction

\* is_valid: score_fraction >= min_score_fraction, where score_fraction is
\* score / max_possible_score, or 0.0 when max_possible_score is not positive
IsValid(score, max_possible_score, min_score_fraction) ==
    IF max_possible_score > 0
    THEN score * 10 >= min_score_fraction * max_possible_score
    ELSE 0 >= min_score_fraction

\* mutant: an insertion advances the template position as well
OperationStep_ins(o, st, n) ==
    IF o.op = "Ins" THEN [st EXCEPT !.x_pos = @ + 1, !.y_pos = @ + 1]
    ELSE IF o.op \in {"Match", "Subst"}
    THEN [x_pos |-> st.x_pos + 1, y_pos |-> st.y_pos + 1,
          template_to_target |->
              IF st.y_pos < n
              THEN [st.template_to_target EXCEPT ![st.y_pos + 1] = Some(st.x_pos)]
              ELSE st.template_to_target]
    ELSE IF o.op = "Del" THEN [st EXCEPT !.y_pos = @ + 1]
    ELSE IF o.op = "Xclip" THEN [st EXCEPT !.x_pos = @ + o.len]
    ELSE [st EXCEPT !.y_pos = @ + o.len]

\* from_alignment: the body of `for op in &alignment.operations`
OperationStep(o, st, n) ==
    CASE o.op \in {"Match", "Subst"} ->
             [x_pos |-> st.x_pos + 1, y_pos |-> st.y_pos + 1,
              template_to_target |->
                  IF st.y_pos < n
                  THEN [st.template_to_target EXCEPT ![st.y_pos + 1] = Some(st.x_pos)]
                  ELSE st.template_to_target]
      [] o.op = "Del" ->
             [x_pos |-> st.x_pos, y_pos |-> st.y_pos + 1,
              template_to_target |->
                  IF st.y_pos < n
                  THEN [st.template_to_target EXCEPT ![st.y_pos + 1] = NoneOpt]
                  ELSE st.template_to_target]
      [] o.op = "Ins" -> [st EXCEPT !.x_pos = @ + 1]
      [] o.op = "Xclip" -> [st EXCEPT !.x_pos = @ + o.len]
      [] o.op = "Yclip" -> [st EXCEPT !.y_pos = @ + o.len]

RECURSIVE ExtractFrom(_, _, _, _, _)
\* extract_window: the loop `for t_pos in template_start..end`
ExtractFrom(map, target, t_pos, end, result) ==
    IF t_pos >= end THEN [some |-> TRUE, val |-> result]
    ELSE IF t_pos >= Len(map) THEN NoWindow
    ELSE IF ~map[t_pos + 1].some THEN NoWindow
    ELSE IF map[t_pos + 1].val >= Len(target) THEN NoWindow
    ELSE ExtractFrom(map, target, t_pos + 1, end,
                     Append(result, target[map[t_pos + 1].val + 1]))

\* mutant: a template position without a target base is skipped
PositionMap_extract_window_skip(map, target, start, length) ==
    LET kept == {k \in 1..length :
                    /\ start + k <= Len(map)
                    /\ map[start + k].some
                    /\ map[start + k].val < Len(target)}
        Nth(j) == CHOOSE k \in kept : Cardinality({m \in kept : m < k}) = j - 1
    IN  [some |-> TRUE,
         val |-> [j \in 1..Cardinality(kept) |-> target[map[start + Nth(j)].val + 1]]]

\* PositionMap::extract_window
PositionMap_extract_window(map, target, start, length) ==
    LET looped == ExtractFrom(map, target, start, start + length, <<>>)
    IN  IF looped.some /\ Len(looped.val) # length THEN NoWindow ELSE looped

MapIdle ==
    /\ alignment = IdentityAlignment(0, 0)
    /\ template_len = 0
    /\ scoring = [match_score |-> 1, min_score_fraction |-> 5]
    /\ mpc = "start"
    /\ x_pos = 0
    /\ y_pos = 0
    /\ op_idx = 0
    /\ position_map = [template_to_target |-> <<>>, score |-> 0,
                       max_possible_score |-> 0, is_valid |-> FALSE]
    /\ target_seq = <<>>
    /\ template_start = 0
    /\ window_length = 0
    /\ extracted = NoWindow

----------------------------------------------------------------------------
(* pairwise.rs: an oligo is matched against every reference *)

\* the oligos matched
OligoPool == {<<>>, <<"A">>, <<"A", "C">>}

\* the reference sequences matched against; "0xFF" is a byte that is not
\* valid UTF-8
ReferencePool == {<<>>, <<"A">>, <<"C", "A">>, <<"0xFF", "C">>}

\* String::from_utf8_lossy(..).to_string(): an ASCII byte is its character,
\* a byte that is not valid UTF-8 becomes U+FFFD
from_utf8_lossy(bytes) ==
    [i \in 1..Len(bytes) |-> IF bytes[i] = "0xFF" THEN "U+FFFD" ELSE bytes[i]]

\* the operations of kinds `kinds` in a list of operations
CountOps(ops, kinds) == Cardinality({i \in 1..Len(ops) : ops[i].op \in kinds})

RECURSIVE AlignmentsFrom(_, _, _, _)
\* the operation lists of the alignment paths that start at query index x
\* and reference index y
AlignmentsFrom(query, reference, x, y) ==
    {<<>>}
    \cup (IF x < Len(query) /\ y < Len(reference)
          THEN {<<Operation(IF query[x + 1] = reference[y + 1]
                            THEN "Match" ELSE "Subst", 0)>> \o t :
                   t \in AlignmentsFrom(query, reference, x + 1, y + 1)}
          ELSE {})
    \cup (IF x < Len(query)
          THEN {<<Operation("Ins", 0)>> \o t :
                   t \in AlignmentsFrom(query, reference, x + 1, y)}
          ELSE {})
    \cup (IF y < Len(reference)
          THEN {<<Operation("Del", 0)>> \o t :
                   t \in AlignmentsFrom(query, reference, x, y + 1)}
          ELSE {})

\* what aligner.local(oligo, reference) may return: any path through the
\* two sequences, found by the library's scoring, with xend and yend the
\* indices the path ends at; the operations with or without the clips of
\* what lies before and after the path. The score is not read by
\* collect_matches.
LocalAlignments(query, reference) ==
    UNION {UNION {{[xstart |-> sp[1], ystart |-> sp[2],
                    xend |-> sp[1] + CountOps(ops, {"Match", "Subst", "Ins"}),
                    yend |-> sp[2] + CountOps(ops, {"Match", "Subst", "Del"}),
                    operations |-> ops],
                   [xstart |-> sp[1], ystart |-> sp[2],
                    xend |-> sp[1] + CountOps(ops, {"Match", "Subst", "Ins"}),
                    yend |-> sp[2] + CountOps(ops, {"Match", "Subst", "Del"}),
                    operations |-> <<Operation("Xclip", sp[1]),
                                     Operation("Yclip", sp[2])>> \o ops]} :
                     ops \in AlignmentsFrom(query, reference, sp[1], sp[2])} :
              sp \in (0..Len(query)) \X (0..Len(reference))}

\* mutant: insertions and deletions are not seen as gaps
process_alignment_gapless(query, reference, a) ==
    LET mismatches == CountOps(a.operations, {"Subst"})
        full_coverage == a.xend - a.xstart = Len(query)
    IN  [matched_sequence |->
             IF full_coverage
             THEN from_utf8_lossy(SubSeq(reference, a.ystart + 1, a.yend))
             ELSE <<>>,
         mismatches |-> mismatches, has_gaps |-> FALSE,
         full_coverage |-> full_coverage]

\* process_alignment, from the alignment on: the PairwiseMatch
process_alignment(query, reference, a) ==
    LET has_gaps == CountOps(a.operations, {"Del", "Ins"}) > 0
        mismatches == CountOps(a.operations, {"Subst"})
        full_coverage == a.xend - a.xstart = Len(query)
    IN  [matched_sequence |->
             IF ~has_gaps /\ full_coverage
             THEN from_utf8_lossy(SubSeq(reference, a.ystart + 1, a.yend))
             ELSE <<>>,
         mismatches |-> mismatches, has_gaps |-> has_gaps,
         full_coverage |-> full_coverage]

\* no alignment is held
NoAlignment == [xstart |-> 0, ystart |-> 0, xend |-> 0, yend |-> 0,
                operations |-> <<>>]

MatchIdle ==
    /\ oligo = <<>>
    /\ references = <<>>
    /\ max_mismatches = 0
    /\ mtc = "start"
    /\ ref_idx = 0
    /\ local_alignment = NoAlignment
    /\ matched = <<>>
    /\ no_match_count = 0

----------------------------------------------------------------------------
(* analyzer.rs / iupac.rs: the inputs of the pure functions *)

\* Option<(usize, f64)>::None
NoThreshold == [some |-> FALSE, needed |-> 0, coverage |-> [num |-> 0, den |-> 1]]

\* Option<u8>::None
NoByte == [some |-> FALSE, val |-> "?"]

\* the Variant lists handed to calculate_variants_for_threshold: at most
\* MaxVariants variants of 2, 3 or 5 of the ThresholdTotal sequences each, in
\* any order
VariantLists ==
    {l \in UNION {[1..k -> {Variant(<<"A">>, c, ThresholdTotal) : c \in {2, 3, 5}}] :
                     k \in 0..MaxVariants} :
        ThresholdFrom(l, 1, [num |-> 0, den |-> ThresholdTotal], 101).coverage.num
            <= 100 * ThresholdTotal}

\* coverage_threshold is in (0, 100]
Thresholds == {1, 50, 80, 95, 100}

\* the bytes looked up: the keys of IUPAC_TO_BASES and bytes that are none
Bytes == IupacCodes \cup {"-", ".", "?", "X", "a", "U"}

FnIdle ==
    /\ th_variants = <<>>
    /\ th_total = 0
    /\ th_threshold = 0
    /\ th_result = NoThreshold
    /\ rt_byte = "?"
    /\ rt_mask = NoneOpt
    /\ rt_code = NoByte

----------------------------------------------------------------------------
(* iupac.rs: the inputs of the two consensus matchers *)

\* Option<bool>::None
NoBool == [some |-> FALSE, val |-> FALSE]

\* the sequences matched: bases, ambiguity codes and a gap
MatcherSeqs == UNION {[1..k -> {"A", "G", "T", "N", "-"}] : k \in 0..MaxPattern}

\* the consensus strings: bases, ambiguity codes, a gap and a byte that is no
\* code, and each of the 15 codes alone
MatcherPatterns ==
    UNION {[1..k -> {"A", "C", "N", "R", "Y", "M", "-", "X"}] : k \in 0..MaxPattern}
    \cup {<<c>> : c \in IupacCodes}

CmpIdle ==
    /\ mt_seq = <<>>
    /\ mt_consensus = <<>>
    /\ mt_bytes = NoBool
    /\ mt_hashset = NoBool

----------------------------------------------------------------------------
(* aligner.rs: align_all_sequences.  Aligner::semiglobal is the bio        *)
(* library; what it returns for a target is one of a few alignments that   *)
(* cover the whole template.                                               *)

\* a progress message goes out every tenth target
ALIGN_PROGRESS_EVERY == 10

\* the template of length n
TemplateOf(n) == [k \in 1..n |-> IF k % 2 = 1 THEN "A" ELSE "C"]

\* the target sequences of a SequenceSet
AlignTargets == {TemplateOf(MaxTemplate), <<"G">>}

\* aligner.semiglobal(target_bytes, template_bytes): the identity alignment
\* for a target equal to the template, else an alignment of the whole
\* template with a lower score
Semiglobal(target, n, sc) ==
    IF target = TemplateOf(n)
    THEN {IdentityAlignment(n, sc.match_score)}
    ELSE {[score |-> sc.match_score * n - lost, xstart |-> 0, ystart |-> 0,
           operations |-> [k \in 1..n |-> Operation("Subst", 0)]] :
             lost \in {1, n + 1}}

RECURSIVE WalkOperations(_, _, _, _)
\* `for op in &alignment.operations` from operation k on
WalkOperations(ops, k, st, n) ==
    IF k > Len(ops) THEN st
    ELSE WalkOperations(ops, k + 1, OperationStep(ops[k], st, n), n)

\* PositionMap::from_alignment
from_alignment(al, n, sc) ==
    [template_to_target |->
        WalkOperations(al.operations, 1,
                       [x_pos |-> al.xstart, y_pos |-> al.ystart,
                        template_to_target |-> [i \in 1..n |-> NoneOpt]],
                       n).template_to_target,
     score |-> al.score,
     max_possible_score |-> n * sc.match_score,
     is_valid |-> IsValid(al.score, n * sc.match_score, sc.min_score_fraction)]

\* the Alignment of a target whose closure has not run yet
NotAligned == [score |-> 0, xstart |-> 0, ystart |-> 0, operations |-> <<>>]

\* a slot of the collected vector that no closure has filled yet
NoSlot == [some |-> FALSE, val |-> <<>>]

\* mutant: the maps are collected in the order the closures finish
Collect_arrival(slots, i, pm) ==
    LET free == CHOOSE k \in 1..Len(slots) :
                   /\ ~slots[k].some
                   /\ \A j \in 1..(k - 1) : slots[j].some
    IN  [slots EXCEPT ![free] = [some |-> TRUE, val |-> pm]]

\* par_iter().map(..).collect(): the map of target i is element i
Collect(slots, i, pm) == [slots EXCEPT ![i] = [some |-> TRUE, val |-> pm]]

\* AlignmentResults, before align_all_sequences returns
NoResults == [some |-> FALSE, position_maps |-> <<>>, target_sequences |-> <<>>,
              valid_count |-> 0, total_count |-> 0]

AlignIdle ==
    /\ al_template_len = 0
    /\ al_sequence_set = <<>>
    /\ al_scoring = [match_score |-> 0, min_score_fraction |-> 0]
    /\ al_progress_tx = FALSE
    /\ al_completed = 0
    /\ al_items = <<>>
    /\ al_alignments = <<>>
    /\ al_position_maps = <<>>
    /\ al_channel = <<>>
    /\ al_results = NoResults

----------------------------------------------------------------------------
(* app.rs: recalculate_coverage_threshold over the cells of a screening    *)

\* the windows of the cells screened: three variants at 60/20/20 percent,
\* two at 50/50, one window in six gapped, half the windows gapped, none
ViewCells ==
    {<<<<"A", "A">>, <<"A", "A">>, <<"A", "A">>, <<"A", "C">>, <<"C", "A">>>>,
     <<<<"A", "A">>, <<"A", "C">>>>,
     <<<<"A", "A">>, <<"A", "A">>, <<"A", "A">>, <<"A", "C">>, <<"A", "C">>,
       <<"A", "-">>>>,
     <<<<"A", "A">>, <<"A", "-">>>>,
     <<>>}

RECURSIVE RecalculateFrom(_, _, _, _)
\* recalculate_coverage_threshold: the loop over the variants of a cell, from
\* the i-th on
RecalculateFrom(vs, i, cumulative, threshold) ==
    IF i > Len(vs)
    THEN [new_needed |-> Len(vs), new_coverage |-> [num |-> 0, den |-> 1],
          cumulative |-> cumulative]
    ELSE LET c == [num |-> cumulative.num + vs[i].percentage.num,
                   den |-> vs[i].percentage.den]
         IN  IF c.num >= threshold * c.den
             THEN [new_needed |-> i, new_coverage |-> c, cumulative |-> c]
             ELSE RecalculateFrom(vs, i + 1, c, threshold)

\* mutant: variants_needed of the PositionResult is left as it was
recalculate_position_stale(pos_result, threshold) ==
    IF pos_result.analysis.skipped THEN pos_result
    ELSE LET r == RecalculateFrom(pos_result.analysis.variants, 1,
                                  [num |-> 0, den |-> 1], threshold)
         IN  [pos_result EXCEPT
                 !.analysis.variants_for_threshold = r.new_needed,
                 !.analysis.coverage_at_threshold =
                     IF r.cumulative.num < threshold * r.cumulative.den
                     THEN r.cumulative ELSE r.new_coverage]

\* recalculate_coverage_threshold: the body of the loop over the positions
recalculate_position(pos_result, threshold) ==
    IF pos_result.analysis.skipped THEN pos_result
    ELSE LET r == RecalculateFrom(pos_result.analysis.variants, 1,
                                  [num |-> 0, den |-> 1], threshold)
         IN  [pos_result EXCEPT
                 !.analysis.variants_for_threshold = r.new_needed,
                 !.analysis.coverage_at_threshold =
                     IF r.cumulative.num < threshold * r.cumulative.den
                     THEN r.cumulative ELSE r.new_coverage,
                 !.variants_needed = r.new_needed]

ViewIdle ==
    /\ rv_positions = <<>>
    /\ rv_threshold = DefaultCoverageThreshold
    /\ rv_applied = DefaultCoverageThreshold

----------------------------------------------------------------------------
(* screener.rs: run_screening.  The closure of analyze_length runs on the  *)
(* threads of the pool; each thread takes the next position, analyzes the  *)
(* window, bumps the atomic counter, sends a progress message when the     *)
(* count calls for one, and yields its PositionResult.  The order in which *)
(* collect() assembles the results is left open: any order the threads can *)
(* finish in (the input order is one of them).                             *)

\* progress messages are sent for every PROGRESS_EVERY-th completion
PROGRESS_EVERY == 10

Workers == 1..NumThreads

\* data.alignment_length, as parse_fasta sets it
alignment_length(d) == IF Len(d) = 0 THEN 0 ELSE Len(d[1])

\* a sequence without gaps, and one with a gap in its first column
CleanSeq(n) == [i \in 1..n |-> "A"]

GappedSeq(n) == [i \in 1..n |-> IF i = 1 THEN "-" ELSE "A"]

\* the alignments screened: one clean sequence, alone or with a gapped one
DataSets ==
    UNION {{<<CleanSeq(n)>>, <<CleanSeq(n), GappedSeq(n)>>} : n \in 1..MaxAlignment}

\* the AnalysisParams screened; thread_count is ThreadCount::get_count()
ParamSets ==
    {p \in [mode : {"ScreenAlignment", "SingleOligoRegion"},
            min_oligo_length : 1..MaxOligo, max_oligo_length : 1..MaxOligo,
            resolution : 1..MaxResolution, thread_count : 1..NumThreads] :
        p.min_oligo_length <= p.max_oligo_length}

\* a sequence with an ambiguity code in its first column
AmbSeq(n) == [i \in 1..n |-> IF i = 1 THEN "N" ELSE "A"]

\* alignments without a usable window in their first column, screened on
\* one thread
UnusableDataSets ==
    UNION {{<<GappedSeq(n)>>, <<AmbSeq(n)>>, <<GappedSeq(n), AmbSeq(n)>>}
              : n \in 1..MaxAlignment}

\* the sequences of the alignments analyzed as a single region
RegionSeqs == UNION {[1..n -> RegionChars] : n \in 1..MaxRegion}

\* the alignments analyzed as a single region: one or two sequences of the
\* same length, as parse_fasta leaves them
RegionDataSets ==
    {<<s>> : s \in RegionSeqs}
    \cup {d \in {<<s, t>> : s, t \in RegionSeqs} : Len(d[1]) = Len(d[2])}

\* the callers of run_screening: data and params
ScreenInputs ==
    {[data |-> d, params |-> p] : d \in DataSets, p \in ParamSets}
    \cup {[data |-> <<CleanSeq(r.len)>>,
           params |-> [mode |-> "ScreenAlignment", min_oligo_length |-> 1,
                       max_oligo_length |-> 1, resolution |-> 1,
                       thread_count |-> r.threads]] : r \in LongRuns}
    \cup {[data |-> d, params |-> p] :
              d \in UnusableDataSets, p \in {q \in ParamSets : q.thread_count = 1}}
    \cup {[data |-> d,
           params |-> [mode |-> "SingleOligoRegion", min_oligo_length |-> 1,
                       max_oligo_length |-> 1, resolution |-> 1,
                       thread_count |-> 1]] : d \in RegionDataSets}

is_standard_base(c) == c \in {"A", "C", "G", "T"}

\* the characters of column pos (1-based) that are counted, with their
\* counts: the standard bases (compute_consensus) or everything but gaps
\* (compute_window_consensus)
ColumnCounts(seqs, pos, standard_only) ==
    LET col == {i \in 1..Len(seqs) :
                   /\ pos <= Len(seqs[i])
                   /\ IF standard_only THEN is_standard_base(seqs[i][pos])
                                       ELSE ~is_gap(seqs[i][pos])}
    IN  [c \in {seqs[i][pos] : i \in col} |->
            Cardinality({i \in col : seqs[i][pos] = c})]

\* counts.into_iter().max_by_key(count): any most frequent character (the
\* last maximum in the iteration order of the HashMap), '-' for no counts
MostCommon(counts) ==
    IF DOMAIN counts = {} THEN {"-"}
    ELSE {c \in DOMAIN counts : \A o \in DOMAIN counts : counts[o] <= counts[c]}

\* the strings of the given length whose characters are most common ones
ConsensusStrings(seqs, len, standard_only) ==
    {cs \in [1..len -> UNION {MostCommon(ColumnCounts(seqs, pos, standard_only))
                                 : pos \in 1..len}] :
        \A pos \in 1..len :
            cs[pos] \in MostCommon(ColumnCounts(seqs, pos, standard_only))}

\* compute_consensus: the values it may return
compute_consensus(d) ==
    IF Len(d) = 0 THEN {<<>>}
    ELSE ConsensusStrings(d, alignment_length(d), TRUE)

\* compute_window_consensus: the values it may return
compute_window_consensus(windows) ==
    IF Len(windows) = 0 THEN {<<>>}
    ELSE ConsensusStrings(windows, Len(windows[1]), FALSE)

\* (0..=max_start).step_by(resolution).collect()
PositionsOf(d, length, resolution) ==
    LET max_start == IF alignment_length(d) >= length
                     THEN alignment_length(d) - length ELSE 0
    IN  [i \in 1..(max_start \div resolution) + 1 |-> (i - 1) * resolution]

\* the length consensus analyze_length may build
LengthConsensus(d, pos, length) ==
    IF Len(pos) = 0 THEN {<<>>}
    ELSE LET windows == extract_window(d, pos[1], length)
         IN  IF Len(windows) = 0 THEN {<<>>}
             ELSE compute_window_consensus(windows)

PositionResult(position, analysis) ==
    [position |-> position, variants_needed |-> analysis.variants_for_threshold,
     analysis |-> analysis]

RECURSIVE InsertByPosition(_, _)
InsertByPosition(sorted, r) ==
    IF Len(sorted) = 0 \/ sorted[Len(sorted)].position <= r.position
    THEN Append(sorted, r)
    ELSE Append(InsertByPosition(SubSeq(sorted, 1, Len(sorted) - 1), r),
                sorted[Len(sorted)])

RECURSIVE SortFrom(_, _, _)
SortFrom(list, i, sorted) ==
    IF i > Len(list) THEN sorted
    ELSE SortFrom(list, i + 1, InsertByPosition(sorted, list[i]))

\* mutant: the results are returned in the order collect() assembled them
sort_by_position_none(list) == list

\* position_results.sort_by_key(|r| r.position): a stable sort
sort_by_position(list) == SortFrom(list, 1, <<>>)

\* mutant: only the gap characters are looked for
has_gaps_or_ambiguities_gaps(seq) == \E i \in 1..Len(seq) : is_gap(seq[i])

\* has_gaps_or_ambiguities
has_gaps_or_ambiguities(seq) ==
    \E i \in 1..Len(seq) : is_gap(seq[i]) \/ ~is_standard_base(seq[i])

\* the ProgressUpdate a map closure sends; message is the formatted text
ProgressOf(length, position, total_positions, length_idx, total_lengths, done) ==
    [current_length |-> length, current_position |-> position,
     total_positions |-> total_positions, lengths_completed |-> length_idx,
     total_lengths |-> total_lengths,
     message |-> <<"Length", length_idx + 1, total_lengths,
                   "Position", done, total_positions>>]

\* the two ProgressUpdates of run_single_oligo_analysis
SingleProgress(length, lengths_completed, text) ==
    [current_length |-> length, current_position |-> 0, total_positions |-> 1,
     lengths_completed |-> lengths_completed, total_lengths |-> 1,
     message |-> <<text>>]

\* mutant: the final completion is not reported
ShouldSend_periodic(done, total_positions) == done % PROGRESS_EVERY = 0

\* completed % 10 == 0 || completed == total_positions
ShouldSend(done, total_positions) ==
    done % PROGRESS_EVERY = 0 \/ done = total_positions

IdleWorker == [pc |-> "idle", position |-> 0, analysis |-> DefaultResult, completed |-> 0]

\* HashMap::insert
Insert(map, key, value) ==
    [k \in DOMAIN map \cup {key} |-> IF k = key THEN value ELSE map[k]]

\* ScreeningResults::new
NewResults(p, d, consensus) ==
    [params |-> p, alignment_length |-> alignment_length(d),
     total_sequences |-> Len(d), consensus_sequence |-> consensus,
     results_by_length |-> <<>>]

ScreenIdle ==
    /\ data = <<>>
    /\ params = [mode |-> "ScreenAlignment", min_oligo_length |-> 1,
                 max_oligo_length |-> 1, resolution |-> 1, thread_count |-> 1]
    /\ progress_tx = "None"
    /\ rx_connected = FALSE
    /\ channel = <<>>
    /\ received = <<>>
    /\ sends = <<>>
    /\ spc = "start"
    /\ oligo_length = 0
    /\ positions = <<>>
    /\ next_item = 1
    /\ completed_count = 0
    /\ workers = [w \in Workers |-> IdleWorker]
    /\ collected = <<>>
    /\ reordered = FALSE
    /\ results = NewResults(params, <<>>, <<>>)

\* a caller of run_screening: with or without a progress channel
ScreenInit ==
    /\ \E input \in ScreenInputs : data = input.data /\ params = input.params
    /\ progress_tx \in {"None", "Some"}
    /\ rx_connected = (progress_tx = "Some")
    /\ channel = <<>>
    /\ received = <<>>
    /\ sends = <<>>
    /\ spc = "start"
    /\ oligo_length = 0
    /\ positions = <<>>
    /\ next_item = 1
    /\ completed_count = 0
    /\ workers = [w \in Workers |-> IdleWorker]
    /\ collected = <<>>
    /\ reordered = FALSE
    /\ results = NewResults(params, <<>>, <<>>)
    /\ CoverIdle
    /\ CellIdle
    /\ AppIdle
    /\ MapIdle
    /\ MatchIdle
    /\ FnIdle
    /\ CmpIdle
    /\ AlignIdle
    /\ ViewIdle

\* mutant: tx.send(update).unwrap(), which panics once the receiver is gone
Send_unwrap(update) ==
    /\ rx_connected
    /\ sends' = Append(sends, [update |-> update, ok |-> TRUE])
    /\ channel' = Append(channel, update)

\* let _ = tx.send(update): the update is queued while the receiver lives
\* (Ok) and dropped otherwise (Err, ignored); the call returns either way
Send(update) ==
    /\ sends' = Append(sends, [update |-> update, ok |-> rx_connected])
    /\ channel' = IF rx_connected THEN Append(channel, update) ELSE channel

\* if let Some(ref tx) = progress_tx { let _ = tx.send(update); }
SendIfSome(update) ==
    IF progress_tx = "Some" THEN Send(update) ELSE UNCHANGED <<sends, channel>>

\* run_screening / run_screen_alignment up to the first length
RunScreenAlignment ==
    /\ spc = "start"
    /\ params.mode = "ScreenAlignment"
    /\ \E consensus \in compute_consensus(data) :
          results' = NewResults(params, data, consensus)
    /\ spc' = "length"
    /\ oligo_length' = params.min_oligo_length
    /\ UNCHANGED <<data, params, progress_tx, rx_connected, channel, received,
                   sends, positions, next_item, completed_count, workers,
                   collected, reordered>>
    /\ UNCHANGED not_screen_vars

\* analyze_length up to the parallel map
LengthStart ==
    /\ spc = "length"
    /\ positions' = PositionsOf(data, oligo_length, params.resolution)
    /\ next_item' = 1
    /\ completed_count' = 0
    /\ collected' = <<>>
    /\ spc' = "parallel"
    /\ UNCHANGED reordered
    /\ UNCHANGED <<data, params, progress_tx, rx_connected, channel, received,
                   sends, oligo_length, workers, results>>
    /\ UNCHANGED not_screen_vars

\* the map closure: analyze_window for the next position
WorkerAnalyze(w) ==
    /\ spc = "parallel"
    /\ w <= params.thread_count
    /\ workers[w].pc = "idle"
    /\ next_item <= Len(positions)
    /\ next_item' = next_item + 1
    /\ workers' = [workers EXCEPT ![w] =
          [pc |-> "analyzed", position |-> positions[next_item],
           analysis |-> analyze_window(data, positions[next_item], oligo_length),
           completed |-> 0]]
    /\ UNCHANGED <<data, params, progress_tx, rx_connected, channel, received,
                   sends, spc, oligo_length, positions, completed_count,
                   collected, reordered, results>>
    /\ UNCHANGED not_screen_vars

\* the map closure: completed_count.fetch_add(1, Relaxed) + 1
WorkerCount(w) ==
    /\ spc = "parallel"
    /\ workers[w].pc = "analyzed"
    /\ completed_count' = completed_count + 1
    /\ workers' = [workers EXCEPT ![w].pc = "counted",
                                  ![w].completed = completed_count + 1]
    /\ UNCHANGED <<data, params, progress_tx, rx_connected, channel, received,
                   sends, spc, oligo_length, positions, next_item, collected,
                   reordered,
                   results>>
    /\ UNCHANGED not_screen_vars

\* the map closure: the throttled send, then the PositionResult is yielded
WorkerReport(w) ==
    /\ spc = "parallel"
    /\ workers[w].pc = "counted"
    /\ IF ShouldSend(workers[w].completed, Len(positions))
       THEN SendIfSome(ProgressOf(oligo_length, workers[w].position,
                Len(positions), oligo_length - params.min_oligo_length,
                params.max_oligo_length - params.min_oligo_length + 1,
                workers[w].completed))
       ELSE UNCHANGED <<sends, channel>>
    /\ collected' = Append(collected,
                           PositionResult(workers[w].position, workers[w].analysis))
    /\ workers' = [workers EXCEPT ![w] = IdleWorker]
    /\ UNCHANGED reordered
    /\ UNCHANGED <<data, params, progress_tx, rx_connected, received, spc,
                   oligo_length, positions, next_item, completed_count, results>>
    /\ UNCHANGED not_screen_vars

\* analyze_length after the map: the collected Vec is sorted in place and
\* moved into the LengthResult; then run_screen_alignment inserts it and
\* goes on to the next length
LengthCollect ==
    /\ spc = "parallel"
    /\ next_item > Len(positions)
    /\ \A w \in Workers : workers[w].pc = "idle"
    /\ \E consensus \in LengthConsensus(data, positions, oligo_length) :
          results' = [results EXCEPT !.results_by_length =
              Insert(@, oligo_length,
                     [oligo_length |-> oligo_length,
                      positions |-> sort_by_position(collected),
                      consensus_sequence |-> consensus])]
    /\ IF oligo_length < params.max_oligo_length
       THEN oligo_length' = oligo_length + 1 /\ spc' = "length"
       ELSE oligo_length' = oligo_length /\ spc' = "done"
    /\ collected' = <<>>
    /\ reordered' = (reordered \/ \E i \in 1..Len(collected) - 1 :
                          collected[i].position > collected[i + 1].position)
    /\ UNCHANGED <<data, params, progress_tx, rx_connected, channel, received,
                   sends, positions, next_item, completed_count, workers>>
    /\ UNCHANGED not_screen_vars

\* run_single_oligo_analysis up to the first progress send
RunSingleOligoAnalysis ==
    /\ spc = "start"
    /\ params.mode = "SingleOligoRegion"
    /\ \E consensus \in compute_consensus(data) :
          results' = NewResults(params, data, consensus)
    /\ oligo_length' = alignment_length(data)
    /\ SendIfSome(SingleProgress(alignment_length(data), 0,
                                 "Analyzing single oligo region..."))
    /\ spc' = "filter"
    /\ UNCHANGED <<data, params, progress_tx, rx_connected, received,
                   positions, next_item, completed_count, workers, collected, reordered>>
    /\ UNCHANGED not_screen_vars

\* the analysis of the whole alignment as one oligo
SingleAnalysisOf(d, filtered_sequences) ==
    IF Len(filtered_sequences) = 0
    THEN [SkippedResult("No valid sequences after filtering gaps/ambiguities",
                        Len(d)) EXCEPT !.sequences_analyzed = 0]
    ELSE [analyze_sequences_exact(CountsOf(filtered_sequences),
                                  DefaultCoverageThreshold)
             EXCEPT !.total_sequences = Len(d),
                    !.sequences_analyzed = Len(filtered_sequences)]

\* the sequences without gaps or ambiguities, analyzed
SingleAnalysis(d) ==
    LET ok(seq) == ~has_gaps_or_ambiguities(seq)
    IN  CHOOSE r \in {SingleAnalysisOf(d, f) : f \in {SelectSeq(d, ok)}} : TRUE

\* run_single_oligo_analysis from the filter to the insertion of the
\* LengthResult
SingleAnalyze ==
    /\ spc = "filter"
    /\ \E analysis \in {SingleAnalysis(data)} :
          results' = [results EXCEPT !.results_by_length =
              Insert(@, oligo_length,
                     [oligo_length |-> oligo_length,
                      positions |-> <<PositionResult(0, analysis)>>,
                      consensus_sequence |-> results.consensus_sequence])]
    /\ spc' = "single"
    /\ UNCHANGED <<data, params, progress_tx, rx_connected, channel, received,
                   sends, oligo_length, positions, next_item, completed_count,
                   workers, collected, reordered>>
    /\ UNCHANGED not_screen_vars

\* run_single_oligo_analysis: the completion progress send and the return
SingleFinish ==
    /\ spc = "single"
    /\ SendIfSome(SingleProgress(oligo_length, 1, "Analysis complete"))
    /\ spc' = "done"
    /\ UNCHANGED <<data, params, progress_tx, rx_connected, received,
                   oligo_length, positions, next_item, completed_count,
                   workers, collected, reordered, results>>
    /\ UNCHANGED not_screen_vars

\* the consumer: rx.try_recv() returning Ok(update)
Recv ==
    /\ rx_connected
    /\ Len(channel) > 0
    /\ received' = Append(received, Head(channel))
    /\ channel' = Tail(channel)
    /\ UNCHANGED <<data, params, progress_tx, rx_connected, sends, spc,
                   oligo_length, positions, next_item, completed_count,
                   workers, collected, reordered, results>>
    /\ UNCHANGED not_screen_vars

\* the consumer drops the Receiver; what is queued is discarded
DropReceiver ==
    /\ rx_connected
    /\ rx_connected' = FALSE
    /\ channel' = <<>>
    /\ UNCHANGED <<data, params, progress_tx, received, sends, spc,
                   oligo_length, positions, next_item, completed_count,
                   workers, collected, reordered, results>>
    /\ UNCHANGED not_screen_vars

ScreenNext ==
    \/ RunScreenAlignment
    \/ LengthStart
    \/ \E w \in Workers : WorkerAnalyze(w)
    \/ \E w \in Workers : WorkerCount(w)
    \/ \E w \in Workers : WorkerReport(w)
    \/ LengthCollect
    \/ RunSingleOligoAnalysis
    \/ SingleAnalyze
    \/ SingleFinish
    \/ Recv
    \/ DropReceiver

SpecScreen == ScreenInit /\ [][ScreenNext]_vars

----------------------------------------------------------------------------
(* app.rs: the run state of the application.  start_analysis spawns one    *)
(* thread per run with a progress channel and a results channel of its     *)
(* own; update() polls them through check_analysis_progress.               *)

AppInit ==
    AppIdle /\ CoverIdle /\ CellIdle /\ ScreenIdle /\ MapIdle /\ MatchIdle /\ FnIdle /\ CmpIdle /\ AlignIdle /\ ViewIdle

\* parse_template_input: Some on a successful parse, None otherwise; also
\* the Clear button
ParseTemplateInput(ok) ==
    /\ template_data' = ok
    /\ UNCHANGED <<reference_data, is_analyzing, analysis_progress, progress_rx,
                   results_rx, app_results, view_coverage_threshold,
                   current_tab, runs_started, threads, progress_chan,
                   results_chan>>
    /\ UNCHANGED not_app_vars

\* parse_reference_input, and the Clear button
ParseReferenceInput(ok) ==
    /\ reference_data' = ok
    /\ UNCHANGED <<template_data, is_analyzing, analysis_progress, progress_rx,
                   results_rx, app_results, view_coverage_threshold,
                   current_tab, runs_started, threads, progress_chan,
                   results_chan>>
    /\ UNCHANGED not_app_vars

\* the user switches tabs
SelectTab(tab) ==
    /\ current_tab' = tab
    /\ UNCHANGED <<template_data, reference_data, is_analyzing,
                   analysis_progress, progress_rx, results_rx, app_results,
                   view_coverage_threshold, runs_started, threads,
                   progress_chan, results_chan>>
    /\ UNCHANGED not_app_vars

\* mutant: the Run button does not look at is_analyzing
can_run_any == template_data /\ reference_data

\* show_analysis_tab: has_template && has_references && !self.is_analyzing
can_run == template_data /\ reference_data /\ ~is_analyzing

\* start_analysis
start_analysis ==
    IF ~template_data \/ ~reference_data
    THEN UNCHANGED <<progress_rx, results_rx, is_analyzing, analysis_progress,
                     runs_started, threads, progress_chan, results_chan>>
    ELSE /\ runs_started' = runs_started + 1
         /\ progress_rx' = Some(runs_started + 1)
         /\ results_rx' = Some(runs_started + 1)
         /\ is_analyzing' = TRUE
         /\ analysis_progress' = NoneOpt
         /\ threads' = [threads EXCEPT ![runs_started + 1] = "running"]
         /\ UNCHANGED <<progress_chan, results_chan>>

\* show_analysis_tab: the Run button, enabled by can_run, is clicked
ClickRun ==
    /\ current_tab = "Analysis"
    /\ can_run
    /\ runs_started < MaxRuns
    /\ start_analysis
    /\ UNCHANGED <<template_data, reference_data, app_results,
                   view_coverage_threshold, current_tab>>
    /\ UNCHANGED not_app_vars

\* the analysis thread: run_screening sends a ProgressUpdate; it is queued
\* if the application still holds the receiver of this run
ThreadProgress(r) ==
    /\ threads[r] = "running"
    /\ Len(progress_chan[r]) < MaxProgress
    /\ \A k \in 1..Len(progress_chan[r]) : progress_chan[r][k] < MaxProgress
    /\ progress_chan' = [progress_chan EXCEPT ![r] =
          IF progress_rx = Some(r)
          THEN Append(@, IF Len(@) = 0 THEN 1 ELSE @[Len(@)] + 1)
          ELSE @]
    /\ UNCHANGED <<template_data, reference_data, is_analyzing,
                   analysis_progress, progress_rx, results_rx, app_results,
                   view_coverage_threshold, current_tab, runs_started,
                   threads, results_chan>>
    /\ UNCHANGED not_app_vars

\* the analysis thread: let _ = results_tx.send(results), then it ends
ThreadSendResults(r) ==
    /\ threads[r] = "running"
    /\ threads' = [threads EXCEPT ![r] = "finished"]
    /\ results_chan' = [results_chan EXCEPT ![r] =
          IF results_rx = Some(r) THEN 1 ELSE @]
    /\ UNCHANGED <<template_data, reference_data, is_analyzing,
                   analysis_progress, progress_rx, results_rx, app_results,
                   view_coverage_threshold, current_tab, runs_started,
                   progress_chan>>
    /\ UNCHANGED not_app_vars

\* the analysis thread panics inside run_screening: it ends without sending
\* and its senders are dropped
ThreadPanic(r) ==
    /\ threads[r] = "running"
    /\ threads' = [threads EXCEPT ![r] = "died"]
    /\ UNCHANGED <<template_data, reference_data, is_analyzing,
                   analysis_progress, progress_rx, results_rx, app_results,
                   view_coverage_threshold, current_tab, runs_started,
                   progress_chan, results_chan>>
    /\ UNCHANGED not_app_vars

\* check_analysis_progress: drain the progress channel, then try the
\* results channel once
check_analysis_progress ==
    /\ IF progress_rx.some
       THEN /\ analysis_progress' =
                   IF Len(progress_chan[progress_rx.val]) = 0
                   THEN analysis_progress
                   ELSE Some(progress_chan[progress_rx.val]
                                 [Len(progress_chan[progress_rx.val])])
            /\ progress_chan' = [progress_chan EXCEPT ![progress_rx.val] = <<>>]
       ELSE UNCHANGED <<analysis_progress, progress_chan>>
    /\ IF results_rx.some /\ results_chan[results_rx.val] = 1
       THEN /\ results_chan' = [results_chan EXCEPT ![results_rx.val] = 0]
            /\ view_coverage_threshold' = DefaultCoverageThreshold
            /\ app_results' = Some(results_rx.val)
            /\ is_analyzing' = FALSE
            /\ progress_rx' = NoneOpt
            /\ results_rx' = NoneOpt
            /\ current_tab' = "Results"
       ELSE UNCHANGED <<results_chan, view_coverage_threshold, app_results,
                        is_analyzing, progress_rx, results_rx, current_tab>>

\* update: a frame while an analysis is under way
Update ==
    /\ is_analyzing
    /\ check_analysis_progress
    /\ UNCHANGED <<template_data, reference_data, runs_started, threads>>
    /\ UNCHANGED not_app_vars

\* load_results: a results file is read and parsed successfully
LoadResults(threshold) ==
    /\ view_coverage_threshold' = threshold
    /\ app_results' = Some(FromFile)
    /\ current_tab' = "Results"
    /\ UNCHANGED <<template_data, reference_data, is_analyzing,
                   analysis_progress, progress_rx, results_rx, runs_started,
                   threads, progress_chan, results_chan>>
    /\ UNCHANGED not_app_vars

AppNext ==
    \/ \E ok \in BOOLEAN : ParseTemplateInput(ok)
    \/ \E ok \in BOOLEAN : ParseReferenceInput(ok)
    \/ \E tab \in Tabs : SelectTab(tab)
    \/ ClickRun
    \/ \E r \in Runs : ThreadProgress(r)
    \/ \E r \in Runs : ThreadSendResults(r)
    \/ \E r \in Runs : ThreadPanic(r)
    \/ Update
    \/ \E threshold \in LoadedThresholds : LoadResults(threshold)

SpecApp == AppInit /\ [][AppNext]_vars

\* the application with its scheduling: eframe calls update again after
\* every request_repaint, and a spawned thread runs until it has sent its
\* results or has ended without them
LiveSpecApp ==
    /\ SpecApp
    /\ WF_vars(Update)
    /\ \A r \in Runs : WF_vars(ThreadSendResults(r) \/ ThreadPanic(r))

----------------------------------------------------------------------------
(* One cell as a state machine: filter_window_sequences classifies the     *)
(* windows one per step, then analyze_window decides.                      *)

CellInit ==
    CellIdle /\ CoverIdle /\ ScreenIdle /\ AppIdle /\ MapIdle /\ MatchIdle /\ FnIdle /\ CmpIdle /\ AlignIdle /\ ViewIdle

\* filter_window_sequences: one iteration of `for &window in windows`
FilterWindow(window) ==
    /\ wpc = "filter"
    /\ cell_total < MaxCell
    /\ cell_total' = cell_total + 1
    /\ IF window_has_gaps(window)
       THEN gap_count' = gap_count + 1 /\ UNCHANGED <<ambiguous_count, filtered>>
       ELSE IF window_has_ambiguous(window)
            THEN ambiguous_count' = ambiguous_count + 1
                 /\ UNCHANGED <<gap_count, filtered>>
            ELSE filtered' = [filtered EXCEPT ![window] = @ + 1]
                 /\ UNCHANGED <<gap_count, ambiguous_count>>
    /\ UNCHANGED <<wpc, cell_result>>
    /\ UNCHANGED not_cell_vars

\* analyze_window: every window is classified; decide and analyze
AnalyzeWindow ==
    /\ wpc = "filter"
    /\ wpc' = "done"
    /\ cell_result' = WindowDecision(cell_total, filtered, gap_count, ambiguous_count)
    /\ UNCHANGED <<cell_total, filtered, gap_count, ambiguous_count>>
    /\ UNCHANGED not_cell_vars

CellNext ==
    \/ \E window \in CellWindows : FilterWindow(window)
    \/ AnalyzeWindow

SpecCell == CellInit /\ [][CellNext]_vars

----------------------------------------------------------------------------
(* aligner.rs: a PositionMap is built from an Alignment, one operation per *)
(* step, and a window is extracted through it.                             *)

MapInit ==
    /\ \E input \in MapInputs :
          /\ alignment = input.alignment
          /\ template_len = input.template_len
          /\ scoring = input.scoring
    /\ mpc = "start"
    /\ x_pos = 0
    /\ y_pos = 0
    /\ op_idx = 0
    /\ position_map = [template_to_target |-> <<>>, score |-> 0,
                       max_possible_score |-> 0, is_valid |-> FALSE]
    /\ target_seq = <<>>
    /\ template_start = 0
    /\ window_length = 0
    /\ extracted = NoWindow
    /\ CoverIdle
    /\ CellIdle
    /\ ScreenIdle
    /\ AppIdle
    /\ MatchIdle
    /\ FnIdle
    /\ CmpIdle
    /\ AlignIdle
    /\ ViewIdle

\* from_alignment up to the loop: the validity and the empty map
FromAlignmentStart ==
    /\ mpc = "start"
    /\ position_map' =
          [template_to_target |-> [i \in 1..template_len |-> NoneOpt],
           score |-> alignment.score,
           max_possible_score |-> template_len * scoring.match_score,
           is_valid |-> IsValid(alignment.score,
                                template_len * scoring.match_score,
                                scoring.min_score_fraction)]
    /\ x_pos' = alignment.xstart
    /\ y_pos' = alignment.ystart
    /\ op_idx' = 0
    /\ mpc' = "ops"
    /\ UNCHANGED <<alignment, template_len, scoring, target_seq,
                   template_start, window_length, extracted>>
    /\ UNCHANGED not_map_vars

\* one iteration of `for op in &alignment.operations`
ApplyOperation ==
    /\ mpc = "ops"
    /\ op_idx < Len(alignment.operations)
    /\ \E st \in {OperationStep(alignment.operations[op_idx + 1],
                               [x_pos |-> x_pos, y_pos |-> y_pos,
                                template_to_target |->
                                    position_map.template_to_target],
                               template_len)} :
          /\ x_pos' = st.x_pos
          /\ y_pos' = st.y_pos
          /\ position_map' = [position_map EXCEPT
                                 !.template_to_target = st.template_to_target]
    /\ op_idx' = op_idx + 1
    /\ UNCHANGED <<alignment, template_len, scoring, mpc, target_seq,
                   template_start, window_length, extracted>>
    /\ UNCHANGED not_map_vars

\* the loop is over: the PositionMap is returned
FromAlignmentReturn ==
    /\ mpc = "ops"
    /\ op_idx = Len(alignment.operations)
    /\ mpc' = "built"
    /\ UNCHANGED <<alignment, template_len, scoring, x_pos, y_pos, op_idx,
                   position_map, target_seq, template_start, window_length,
                   extracted>>
    /\ UNCHANGED not_map_vars

\* a caller extracts a window through the finished map
ExtractWindow(target, start, length) ==
    /\ mpc = "built"
    /\ target_seq' = target
    /\ template_start' = start
    /\ window_length' = length
    /\ extracted' = PositionMap_extract_window(position_map.template_to_target,
                                               target, start, length)
    /\ mpc' = "extracted"
    /\ UNCHANGED <<alignment, template_len, scoring, x_pos, y_pos, op_idx,
                   position_map>>
    /\ UNCHANGED not_map_vars

MapNext ==
    \/ FromAlignmentStart
    \/ ApplyOperation
    \/ FromAlignmentReturn
    \/ \E target \in {<<"A">>, <<"A", "C", "G", "T">>},
          start \in 0..MaxTemplate, length \in 0..MaxTemplate :
          ExtractWindow(target, start, length)

SpecMap == MapInit /\ [][MapNext]_vars

----------------------------------------------------------------------------
(* pairwise.rs: collect_matches aligns the oligo to one reference after the *)
(* other and sorts each into matched or no match.                          *)

MatchInit ==
    /\ oligo \in OligoPool
    /\ references \in UNION {[1..k -> ReferencePool] : k \in 0..MaxRefs}
    /\ max_mismatches \in 0..MaxMismatch
    /\ mtc = "start"
    /\ ref_idx = 0
    /\ local_alignment = NoAlignment
    /\ matched = <<>>
    /\ no_match_count = 0
    /\ CoverIdle
    /\ CellIdle
    /\ ScreenIdle
    /\ AppIdle
    /\ MapIdle
    /\ FnIdle
    /\ CmpIdle
    /\ AlignIdle
    /\ ViewIdle

\* collect_matches with no references returns at once
CollectMatchesEmpty ==
    /\ mtc = "start"
    /\ Len(references) = 0
    /\ mtc' = "done"
    /\ UNCHANGED <<oligo, references, max_mismatches, ref_idx, local_alignment,
                   matched, no_match_count>>
    /\ UNCHANGED not_match_vars

\* process_alignment: aligner.local(oligo, reference) for the next reference
LocalAlign ==
    /\ mtc \in {"start", "loop"}
    /\ ref_idx < Len(references)
    /\ local_alignment' \in LocalAlignments(oligo, references[ref_idx + 1])
    /\ mtc' = "aligned"
    /\ UNCHANGED <<oligo, references, max_mismatches, ref_idx, matched,
                   no_match_count>>
    /\ UNCHANGED not_match_vars

\* the rest of process_alignment and the test of its result
Classify ==
    /\ mtc = "aligned"
    /\ \E result \in {process_alignment(oligo, references[ref_idx + 1],
                                        local_alignment)} :
          IF \/ ~result.full_coverage
             \/ result.has_gaps
             \/ result.mismatches > max_mismatches
          THEN /\ no_match_count' = no_match_count + 1
               /\ matched' = matched
          ELSE /\ matched' = Append(matched, result.matched_sequence)
               /\ no_match_count' = no_match_count
    /\ ref_idx' = ref_idx + 1
    /\ local_alignment' = NoAlignment
    /\ mtc' = "loop"
    /\ UNCHANGED <<oligo, references, max_mismatches>>
    /\ UNCHANGED not_match_vars

\* the loop is over: (matched, no_match_count) is returned
CollectMatchesReturn ==
    /\ mtc = "loop"
    /\ ref_idx = Len(references)
    /\ mtc' = "done"
    /\ UNCHANGED <<oligo, references, max_mismatches, ref_idx, local_alignment,
                   matched, no_match_count>>
    /\ UNCHANGED not_match_vars

MatchNext ==
    \/ CollectMatchesEmpty
    \/ LocalAlign
    \/ Classify
    \/ CollectMatchesReturn

SpecMatch == MatchInit /\ [][MatchNext]_vars

----------------------------------------------------------------------------
(* analyzer.rs / iupac.rs: the pure functions applied to drawn inputs *)

FnInit ==
    /\ th_variants \in VariantLists
    /\ th_total = ThresholdTotal
    /\ th_threshold \in Thresholds
    /\ th_result = NoThreshold
    /\ rt_byte \in Bytes
    /\ rt_mask = NoneOpt
    /\ rt_code = NoByte
    /\ CoverIdle
    /\ CellIdle
    /\ ScreenIdle
    /\ AppIdle
    /\ MapIdle
    /\ MatchIdle
    /\ CmpIdle
    /\ AlignIdle
    /\ ViewIdle

\* calculate_variants_for_threshold(&variants, total, coverage_threshold)
CalculateThreshold ==
    /\ ~th_result.some
    /\ \E t \in {calculate_variants_for_threshold(th_variants, th_total,
                                                   th_threshold)} :
          th_result' = [some |-> TRUE, needed |-> t.needed,
                        coverage |-> t.coverage]
    /\ UNCHANGED <<th_variants, th_total, th_threshold, rt_byte, rt_mask,
                   rt_code>>
    /\ UNCHANGED not_fn_vars

\* base_to_bit(b)
BaseToBit ==
    /\ ~rt_mask.some
    /\ rt_mask' = Some(base_to_bit(rt_byte))
    /\ UNCHANGED <<th_variants, th_total, th_threshold, th_result, rt_byte,
                   rt_code>>
    /\ UNCHANGED not_fn_vars

\* IUPAC_FROM_MASK[mask as usize]
FromMask ==
    /\ rt_mask.some
    /\ ~rt_code.some
    /\ rt_code' = [some |-> TRUE, val |-> IUPAC_FROM_MASK[rt_mask.val + 1]]
    /\ UNCHANGED <<th_variants, th_total, th_threshold, th_result, rt_byte,
                   rt_mask>>
    /\ UNCHANGED not_fn_vars

FnNext ==
    \/ CalculateThreshold
    \/ BaseToBit
    \/ FromMask

SpecFn == FnInit /\ [][FnNext]_vars

----------------------------------------------------------------------------
(* iupac.rs: the bitmask matcher and the HashSet matcher applied to the *)
(* same sequence and consensus.                                        *)

CmpInit ==
    /\ mt_seq \in MatcherSeqs
    /\ mt_consensus \in MatcherPatterns
    /\ mt_bytes = NoBool
    /\ mt_hashset = NoBool
    /\ CoverIdle
    /\ CellIdle
    /\ ScreenIdle
    /\ AppIdle
    /\ MapIdle
    /\ MatchIdle
    /\ FnIdle
    /\ AlignIdle
    /\ ViewIdle

\* sequence_matches_consensus_bytes(seq.as_bytes(), cons.as_bytes())
MatchBytes ==
    /\ ~mt_bytes.some
    /\ mt_bytes' = [some |-> TRUE,
                    val |-> sequence_matches_consensus_bytes(mt_seq, mt_consensus)]
    /\ UNCHANGED <<mt_seq, mt_consensus, mt_hashset>>
    /\ UNCHANGED not_cmp_vars

\* sequence_matches_consensus(seq, cons)
MatchHashSet ==
    /\ ~mt_hashset.some
    /\ mt_hashset' = [some |-> TRUE,
                      val |-> sequence_matches_consensus(mt_seq, mt_consensus)]
    /\ UNCHANGED <<mt_seq, mt_consensus, mt_bytes>>
    /\ UNCHANGED not_cmp_vars

CmpNext ==
    \/ MatchBytes
    \/ MatchHashSet

SpecCmp == CmpInit /\ [][CmpNext]_vars

----------------------------------------------------------------------------
(* align_all_sequences as a state machine: the closure runs once per       *)
(* target on the threads of the pool, in any order and interleaved.        *)

AlignInit ==
    /\ al_template_len \in 0..MaxTemplate
    /\ al_sequence_set \in UNION {[1..k -> AlignTargets] : k \in 0..MaxTargets}
    /\ al_scoring \in [match_score : {0, MaxMatchScore},
                       min_score_fraction : {0, 5}]
    /\ al_progress_tx \in BOOLEAN
    /\ al_completed = 0
    /\ al_items = [i \in 1..Len(al_sequence_set) |-> [pc |-> "todo", done |-> 0]]
    /\ al_alignments = [i \in 1..Len(al_sequence_set) |-> NotAligned]
    /\ al_position_maps = [i \in 1..Len(al_sequence_set) |-> NoSlot]
    /\ al_channel = <<>>
    /\ al_results = NoResults
    /\ CoverIdle
    /\ CellIdle
    /\ ScreenIdle
    /\ AppIdle
    /\ MapIdle
    /\ MatchIdle
    /\ FnIdle
    /\ CmpIdle
    /\ ViewIdle

\* the closure for target i up to completed.fetch_add
AlignTarget(i) ==
    /\ al_items[i].pc = "todo"
    /\ \E al \in Semiglobal(al_sequence_set[i], al_template_len, al_scoring) :
          al_alignments' = [al_alignments EXCEPT ![i] = al]
    /\ al_completed' = al_completed + 1
    /\ al_items' = [al_items EXCEPT ![i] = [pc |-> "counted", done |-> al_completed + 1]]
    /\ UNCHANGED <<al_template_len, al_sequence_set, al_scoring, al_progress_tx,
                   al_position_maps, al_channel, al_results>>
    /\ UNCHANGED not_al_vars

\* the closure for target i from the progress message on: it returns pm
ReturnMap(i) ==
    /\ al_items[i].pc = "counted"
    /\ al_channel' =
          IF /\ al_progress_tx
             /\ \/ al_items[i].done % ALIGN_PROGRESS_EVERY = 0
                \/ al_items[i].done = Len(al_sequence_set)
          THEN Append(al_channel, al_items[i].done)
          ELSE al_channel
    /\ al_position_maps' =
          Collect(al_position_maps, i,
                  from_alignment(al_alignments[i], al_template_len, al_scoring))
    /\ al_items' = [al_items EXCEPT ![i].pc = "mapped"]
    /\ UNCHANGED <<al_template_len, al_sequence_set, al_scoring, al_progress_tx,
                   al_completed, al_alignments, al_results>>
    /\ UNCHANGED not_al_vars

\* every closure has returned: valid_count and the AlignmentResults
AlignReturn ==
    /\ ~al_results.some
    /\ \A i \in 1..Len(al_sequence_set) : al_items[i].pc = "mapped"
    /\ al_results' =
          [some |-> TRUE,
           position_maps |-> [i \in 1..Len(al_position_maps) |-> al_position_maps[i].val],
           target_sequences |-> al_sequence_set,
           valid_count |-> Cardinality({i \in 1..Len(al_position_maps) :
                                           al_position_maps[i].val.is_valid}),
           total_count |-> Len(al_sequence_set)]
    /\ UNCHANGED <<al_template_len, al_sequence_set, al_scoring, al_progress_tx,
                   al_completed, al_items, al_alignments, al_position_maps,
                   al_channel>>
    /\ UNCHANGED not_al_vars

AlignNext ==
    \/ \E i \in 1..Len(al_sequence_set) : AlignTarget(i)
    \/ \E i \in 1..Len(al_sequence_set) : ReturnMap(i)
    \/ AlignReturn

SpecAlign == AlignInit /\ [][AlignNext]_vars

----------------------------------------------------------------------------
(* The results view as a state machine: a screening has been received, the *)
(* user drags the threshold and presses Apply.                             *)

\* check_analysis_progress has stored the results of a screening
ViewInit ==
    /\ \E cells \in UNION {[1..k -> ViewCells] : k \in 1..MaxPositions} :
          rv_positions = [i \in 1..Len(cells) |->
                            PositionResult(i - 1, WindowResult(cells[i]))]
    /\ rv_threshold = DefaultCoverageThreshold
    /\ rv_applied = DefaultCoverageThreshold
    /\ CoverIdle
    /\ CellIdle
    /\ ScreenIdle
    /\ AppIdle
    /\ MapIdle
    /\ MatchIdle
    /\ FnIdle
    /\ CmpIdle
    /\ AlignIdle

\* show_results_tab: the DragValue of the coverage threshold is changed
DragThreshold(threshold) ==
    /\ rv_threshold' = threshold
    /\ UNCHANGED <<rv_positions, rv_applied>>
    /\ UNCHANGED not_rv_vars

\* show_results_tab: Apply is clicked; recalculate_coverage_threshold
ApplyThreshold ==
    /\ rv_positions' = [i \in 1..Len(rv_positions) |->
                          recalculate_position(rv_positions[i], rv_threshold)]
    /\ rv_applied' = rv_threshold
    /\ UNCHANGED rv_threshold
    /\ UNCHANGED not_rv_vars

ViewNext ==
    \/ \E threshold \in Thresholds : DragThreshold(threshold)
    \/ ApplyThreshold

SpecView == ViewInit /\ [][ViewNext]_vars

----------------------------------------------------------------------------
(* The variant finders as a state machine: the caller assembles the window *)
(* list, then find_minimum_variants_greedy or find_incremental_variants    *)
(* runs its while loop, one iteration per step.                            *)

Methods ==
    {[kind |-> "FixedAmbiguities", max_amb |-> Some(n), target_pct |-> 0] :
        n \in 0..MaxAmb}
    \cup
    {[kind |-> "Incremental", max_amb |-> a, target_pct |-> t] :
        a \in {Some(n) : n \in 0..MaxAmb} \cup {NoneOpt}, t \in TargetPcts}
    \cup
    {[kind |-> "NoAmbiguities", max_amb |-> NoneOpt, target_pct |-> 0]}

NoSequences == [w \in InputWindows |-> 0]

CoverInit ==
    /\ sequences = NoSequences
    /\ method \in Methods
    /\ exclude_n \in BOOLEAN
    /\ cpc = "input"
    /\ uncovered = {}
    /\ remaining = NoSequences
    /\ variants = <<>>
    /\ fallback_taken = FALSE
    /\ unique_remaining = <<>>
    /\ CellIdle
    /\ ScreenIdle
    /\ AppIdle
    /\ MapIdle
    /\ MatchIdle
    /\ FnIdle
    /\ CmpIdle
    /\ AlignIdle
    /\ ViewIdle

\* the caller pushes one more window onto the list it will pass
AddSequence(w) ==
    /\ cpc = "input"
    /\ TotalOf(sequences) < MaxSeqs
    /\ sequences' = [sequences EXCEPT ![w] = @ + 1]
    /\ UNCHANGED <<method, exclude_n, cpc, uncovered, remaining, variants,
                   fallback_taken,
                   unique_remaining>>
    /\ UNCHANGED not_cover_vars

\* find_minimum_variants_greedy: entry, up to the while loop
GreedyStart ==
    /\ cpc = "input"
    /\ method.kind = "FixedAmbiguities"
    /\ IF TotalOf(sequences) = 0
       THEN cpc' = "done" /\ uncovered' = {}
       ELSE cpc' = "greedy" /\ uncovered' = Keys(sequences)
    /\ variants' = <<>>
    /\ UNCHANGED <<sequences, method, exclude_n, remaining, fallback_taken,
                   unique_remaining>>
    /\ UNCHANGED not_cover_vars

\* one iteration of `while !uncovered.is_empty()`
GreedyRound ==
    /\ cpc = "greedy"
    /\ uncovered # {}
    /\ \E order \in Orders(uncovered) :
          \E best \in {find_best_consensus(order, sequences, method.max_amb.val,
                                            exclude_n)} :
              IF best.coverage = {}
              THEN \E most_freq \in {MaxByCount(order, sequences)} :
                       /\ variants' = Append(variants,
                              Variant(most_freq, sequences[most_freq],
                                      TotalOf(sequences)))
                       /\ uncovered' = uncovered \ {most_freq}
                       /\ fallback_taken' = TRUE
              ELSE /\ variants' = Append(variants,
                          Variant(best.consensus,
                                  SumCounts(best.coverage, sequences),
                                  TotalOf(sequences)))
                   /\ uncovered' = uncovered \ best.coverage
                   /\ UNCHANGED fallback_taken
    /\ UNCHANGED <<sequences, method, exclude_n, cpc, remaining,
                   unique_remaining>>
    /\ UNCHANGED not_cover_vars

\* the loop condition fails: return variants
GreedyReturn ==
    /\ cpc = "greedy"
    /\ uncovered = {}
    /\ cpc' = "done"
    /\ UNCHANGED <<sequences, method, exclude_n, uncovered, remaining, variants,
                   fallback_taken, unique_remaining>>
    /\ UNCHANGED not_cover_vars

\* find_incremental_variants: entry, up to the while loop
IncrementalStart ==
    /\ cpc = "input"
    /\ method.kind = "Incremental"
    /\ IF TotalOf(sequences) = 0
       THEN cpc' = "done" /\ remaining' = NoSequences
       ELSE cpc' = "incremental" /\ remaining' = sequences
    /\ variants' = <<>>
    /\ UNCHANGED <<sequences, method, exclude_n, uncovered, fallback_taken,
                   unique_remaining>>
    /\ UNCHANGED not_cover_vars

\* an iteration of `while !remaining.is_empty()` begins: remaining_counts
\* is built and its keys are collected, in the order the HashMap iterates
IncrementalKeys ==
    /\ cpc = "incremental"
    /\ TotalOf(remaining) > 0
    /\ unique_remaining' \in Orders(Keys(remaining))
    /\ cpc' = "consensus"
    /\ UNCHANGED <<sequences, method, exclude_n, uncovered, remaining, variants,
                   fallback_taken>>
    /\ UNCHANGED not_cover_vars

\* the rest of the iteration: find_incremental_consensus, the Variant is
\* pushed and the covered windows are removed
IncrementalRound ==
    /\ cpc = "consensus"
    /\ \E best \in {find_incremental_consensus(unique_remaining, remaining,
                    TargetCount(method.target_pct, TotalOf(remaining)),
                    exclude_n, method.max_amb)} :
          /\ variants' = Append(variants,
                 Variant(best.consensus, best.coverage_count,
                         TotalOf(sequences)))
          /\ remaining' = [w \in InputWindows |->
                 IF sequence_matches_consensus_bytes(w, best.consensus)
                 THEN 0 ELSE remaining[w]]
          /\ fallback_taken' = (fallback_taken \/ best.fallback)
    /\ unique_remaining' = <<>>
    /\ cpc' = "incremental"
    /\ UNCHANGED <<sequences, method, exclude_n, uncovered>>
    /\ UNCHANGED not_cover_vars

IncrementalReturn ==
    /\ cpc = "incremental"
    /\ TotalOf(remaining) = 0
    /\ cpc' = "done"
    /\ UNCHANGED <<sequences, method, exclude_n, uncovered, remaining, variants,
                   fallback_taken, unique_remaining>>
    /\ UNCHANGED not_cover_vars

\* find_variants_no_ambiguities, in the iteration order the HashMap has
ExactRun ==
    /\ cpc = "input"
    /\ method.kind = "NoAmbiguities"
    /\ \E order \in Orders(Keys(sequences)) :
          variants' = find_variants_no_ambiguities(order, sequences)
    /\ cpc' = "done"
    /\ UNCHANGED <<sequences, method, exclude_n, uncovered, remaining,
                   fallback_taken, unique_remaining>>
    /\ UNCHANGED not_cover_vars

CoverNext ==
    \/ \E w \in InputWindows : AddSequence(w)
    \/ ExactRun
    \/ GreedyStart
    \/ GreedyRound
    \/ GreedyReturn
    \/ IncrementalStart
    \/ IncrementalKeys
    \/ IncrementalRound
    \/ IncrementalReturn

SpecCover == CoverInit /\ [][CoverNext]_vars

----------------------------------------------------------------------------
(* find_incremental_variants from the head of its loop, on a drawn non-empty *)
(* list of windows                                                          *)

\* the lists of at most MaxRemaining windows, as window -> multiplicity
StepLists ==
    {c \in [InputWindows -> 0..MaxRemaining] :
        TotalOf(c) > 0 /\ TotalOf(c) <= MaxRemaining}

\* remaining = sequences.to_vec(), no variant yet
StepInit ==
    /\ sequences \in StepLists
    /\ \E m \in Methods : m.kind = "Incremental" /\ method = m
    /\ exclude_n \in BOOLEAN
    /\ cpc = "incremental"
    /\ uncovered = {}
    /\ remaining = sequences
    /\ variants = <<>>
    /\ fallback_taken = FALSE
    /\ unique_remaining = <<>>
    /\ CellIdle
    /\ ScreenIdle
    /\ AppIdle
    /\ MapIdle
    /\ MatchIdle
    /\ FnIdle
    /\ CmpIdle
    /\ AlignIdle
    /\ ViewIdle

StepNext ==
    \/ IncrementalKeys
    \/ IncrementalRound
    \/ IncrementalReturn

SpecStep == StepInit /\ [][StepNext]_vars

----------------------------------------------------------------------------
(* Properties of the variant finders *)

RECURSIVE SumVariantCounts(_)
SumVariantCounts(vs) ==
    IF vs = <<>> THEN 0 ELSE Head(vs).count + SumVariantCounts(Tail(vs))

\* the number of positions whose code stands for more than one base
AmbiguityPositions(seq) ==
    Cardinality({i \in 1..Len(seq) :
        seq[i] \in IupacCodes /\ Cardinality(IUPAC_TO_BASES[seq[i]]) > 1})

ContainsN(seq) == \E i \in 1..Len(seq) : seq[i] = "N"

IsAcgtWindow(w) == \A i \in 1..Len(w) : w[i] \in {"A", "C", "G", "T"}

\* C1: the incremental method covers every input window in exactly one step:
\* while it runs, the counts of the variants found so far plus the windows
\* still remaining make up the input, and when it returns the variant counts
\* sum to the number of input windows.
C1_IncrementalTotalMass ==
    (method.kind = "Incremental" /\ cpc \in {"incremental", "done"}) =>
        /\ SumVariantCounts(variants) + TotalOf(remaining) = TotalOf(sequences)
        /\ cpc = "done" => SumVariantCounts(variants) = TotalOf(sequences)

C1_Witness ==
    /\ method.kind = "Incremental"
    /\ cpc = "done"
    /\ TotalOf(sequences) = MaxSeqs
    /\ Len(variants) >= 2
    /\ \E i \in 1..Len(variants) :
          variants[i].count >= 2 /\ AmbiguityPositions(variants[i].sequence) >= 1

\* C2: the bounded-ambiguity method returns only when nothing is uncovered;
\* every input window then matches the consensus of a returned variant and
\* the variant counts sum to the number of input windows.
C2_GreedyCoverageComplete ==
    (method.kind = "FixedAmbiguities" /\ cpc = "done") =>
        /\ uncovered = {}
        /\ \A w \in Keys(sequences) :
              \E i \in 1..Len(variants) :
                  sequence_matches_consensus(w, variants[i].sequence)
        /\ SumVariantCounts(variants) = TotalOf(sequences)

C2_Witness ==
    /\ method.kind = "FixedAmbiguities"
    /\ cpc = "done"
    /\ TotalOf(sequences) = MaxSeqs
    /\ Len(variants) >= 2
    /\ \E i \in 1..Len(variants) :
          variants[i].count >= 2 /\ AmbiguityPositions(variants[i].sequence) >= 1

\* C3: no returned variant exceeds its ambiguity budget (max_ambiguities for
\* the bounded-ambiguity method, the cap n for the incremental method with
\* Some(n)), and with exclude_n no returned variant contains N.
C3_AmbiguityBounds ==
    \A i \in 1..Len(variants) :
        /\ method.max_amb.some =>
              AmbiguityPositions(variants[i].sequence) <= method.max_amb.val
        /\ exclude_n => ~ContainsN(variants[i].sequence)

C3_Witness ==
    /\ cpc = "done"
    /\ exclude_n
    /\ method.max_amb.some
    /\ method.max_amb.val = 1
    /\ Cardinality(Keys(sequences)) = 4
    /\ \A w \in Keys(sequences) : w[2] = "A"
    /\ \E i \in 1..Len(variants) :
          AmbiguityPositions(variants[i].sequence) = 1

\* the position-wise union of the input windows
UnionOfInput == create_consensus_from_seqs(ListOf(Keys(sequences)), exclude_n)

\* C4: when the position-wise union of the input windows fits the ambiguity
\* budget (and, with exclude_n, needs no N), the bounded-ambiguity method
\* returns exactly one variant: the union's IUPAC consensus, counting every
\* input window.
C4_SingleCover ==
    (/\ method.kind = "FixedAmbiguities"
     /\ cpc = "done"
     /\ TotalOf(sequences) > 0
     /\ UnionOfInput.is_valid
     /\ UnionOfInput.amb_count <= method.max_amb.val) =>
        /\ Len(variants) = 1
        /\ variants[1].count = TotalOf(sequences)
        /\ variants[1].sequence = UnionOfInput.consensus

C4_Witness ==
    /\ method.kind = "FixedAmbiguities"
    /\ cpc = "done"
    /\ method.max_amb.val = 1
    /\ Cardinality(Keys(sequences)) = 3
    /\ TotalOf(sequences) = MaxSeqs
    /\ UnionOfInput.is_valid
    /\ UnionOfInput.amb_count = 1
    /\ Len(variants) = 1

----------------------------------------------------------------------------
(* Properties of the cell exclusion policy *)

Excluded == gap_count + ambiguous_count

\* C5 (as claimed): a finished cell whose excluded windows, gapped and
\* ambiguous together, are more than 20% of its windows is skipped, with a
\* reason and no variants.
C5_ExclusionCutoff ==
    (wpc = "done" /\ Excluded * 100 > 20 * cell_total) =>
        /\ cell_result.skipped
        /\ cell_result.skip_reason # "None"
        /\ cell_result.variants = <<>>

\* C6 (as claimed): a finished cell with exactly 20% of its windows excluded
\* and a usable window is analyzed, sequences_analyzed being the number of
\* usable windows; a finished cell with exactly 21% excluded is skipped.
C6_ExclusionBoundary ==
    /\ (wpc = "done" /\ Excluded * 100 = 20 * cell_total /\ TotalOf(filtered) >= 1) =>
          /\ ~cell_result.skipped
          /\ cell_result.sequences_analyzed = TotalOf(filtered)
    /\ (wpc = "done" /\ cell_total > 0 /\ Excluded * 100 = 21 * cell_total) =>
          cell_result.skipped

----------------------------------------------------------------------------
(* Properties of the parallel length scan *)

\* the window starts scanned for oligo length len
ScannedPositions(len) ==
    {q \in 0..alignment_length(data) :
        /\ q % params.resolution = 0
        /\ q <= (IF alignment_length(data) >= len
                 THEN alignment_length(data) - len ELSE 0)}

Ascending(list) ==
    \A i, j \in 1..Len(list) : i < j => list[i].position < list[j].position

\* C7: whatever order the threads finish in, the positions of every
\* LengthResult of a sliding-window run are strictly ascending and are
\* exactly the scanned window starts, each once.
C7_PositionAscending ==
    params.mode = "ScreenAlignment" =>
        \A len \in DOMAIN results.results_by_length :
            LET ps == results.results_by_length[len].positions
            IN  /\ Ascending(ps)
                /\ {ps[i].position : i \in 1..Len(ps)} = ScannedPositions(len)
                /\ Len(ps) = Cardinality(ScannedPositions(len))

\* a run has ended whose threads finished the last length out of order
C7_Witness ==
    /\ spc = "done"
    /\ params.mode = "ScreenAlignment"
    /\ reordered
    /\ Len(results.results_by_length[oligo_length].positions) >= 2
    /\ Ascending(results.results_by_length[oligo_length].positions)

\* the completion count a progress message of analyze_length reports
CompletedOf(update) == update.message[5]

\* how many times tx.send was called for length len with count c
TimesSent(len, c) ==
    Cardinality({i \in 1..Len(sends) :
        sends[i].update.current_length = len /\ CompletedOf(sends[i].update) = c})

\* C8: in a sliding-window run with a progress sender, a message is sent
\* only for a completion count c with c mod 10 = 0 or c = T, and once a
\* length with T cells is finished, exactly one message was sent for each
\* such c in 1..T and none for any other.
C8_ProgressThrottling ==
    (params.mode = "ScreenAlignment" /\ progress_tx = "Some") =>
        /\ \A i \in 1..Len(sends) :
              \/ CompletedOf(sends[i].update) % 10 = 0
              \/ CompletedOf(sends[i].update) = sends[i].update.total_positions
        /\ \A len \in DOMAIN results.results_by_length :
              LET T == Len(results.results_by_length[len].positions)
              IN  \A c \in 1..T :
                      TimesSent(len, c) = IF c % 10 = 0 \/ c = T THEN 1 ELSE 0

\* a two-thread run over 11 cells has ended: the 10th and the 11th
\* completion were reported
C8_Witness ==
    /\ spc = "done"
    /\ params.thread_count = 2
    /\ Len(positions) = 11
    /\ TimesSent(oligo_length, 10) = 1
    /\ TimesSent(oligo_length, 11) = 1
    /\ TimesSent(oligo_length, 9) = 0

\* the LengthResult of a sequential scan of length len
ReferenceLength(len, r) ==
    \E scanned \in {PositionsOf(data, len, params.resolution)} :
        /\ r.oligo_length = len
        /\ Len(r.positions) = Len(scanned)
        /\ \A i \in 1..Len(scanned) :
              \E analysis \in {analyze_window(data, scanned[i], len)} :
                  r.positions[i] = PositionResult(scanned[i], analysis)
        /\ r.consensus_sequence \in LengthConsensus(data, scanned, len)

\* results is what run_screening returns for data and params, whatever
\* happened to the progress channel
ReferenceResults ==
    /\ results.params = params
    /\ results.alignment_length = alignment_length(data)
    /\ results.total_sequences = Len(data)
    /\ results.consensus_sequence \in compute_consensus(data)
    /\ IF params.mode = "ScreenAlignment"
       THEN /\ DOMAIN results.results_by_length =
                   params.min_oligo_length..params.max_oligo_length
            /\ \A len \in DOMAIN results.results_by_length :
                   ReferenceLength(len, results.results_by_length[len])
       ELSE /\ DOMAIN results.results_by_length = {alignment_length(data)}
            /\ results.results_by_length[alignment_length(data)] =
                   [oligo_length |-> alignment_length(data),
                    positions |-> <<PositionResult(0, SingleAnalysis(data))>>,
                    consensus_sequence |-> results.consensus_sequence]

\* C9: a step that sends progress can always be taken, with the receiver
\* dropped or without a sender as well, and the ScreeningResults of a
\* finished run are those determined by data and params alone.
C9_LossyProgressChannel ==
    /\ \A w \in Workers : workers[w].pc = "counted" => ENABLED WorkerReport(w)
    /\ (spc = "start" /\ params.mode = "SingleOligoRegion") =>
           ENABLED RunSingleOligoAnalysis
    /\ spc = "single" => ENABLED SingleFinish
    /\ spc = "done" => ReferenceResults

\* a run has ended in which a send failed on a dropped receiver
C9_Witness ==
    /\ spc = "done"
    /\ progress_tx = "Some"
    /\ ~rx_connected
    /\ \E i \in 1..Len(sends) : ~sends[i].ok
    /\ ReferenceResults

----------------------------------------------------------------------------
(* Properties of the application's run state *)

\* the runs whose thread has not ended
InFlight == {r \in Runs : threads[r] = "running"}

\* C10: a run is started only while is_analyzing is false, and the start
\* sets is_analyzing and both receivers; is_analyzing goes back to false
\* only in a step that takes the results value of the run off its channel,
\* stores it and clears both receivers; at most one run is in flight.
C10_RunStateMachine ==
    [][/\ runs_started' # runs_started =>
            /\ ~is_analyzing /\ is_analyzing'
            /\ progress_rx' = Some(runs_started') /\ results_rx' = Some(runs_started')
       /\ is_analyzing' # is_analyzing =>
            \/ ~is_analyzing /\ runs_started' = runs_started + 1
            \/ /\ is_analyzing /\ results_rx.some
               /\ results_chan[results_rx.val] = 1
               /\ results_chan'[results_rx.val] = 0
               /\ app_results' = Some(results_rx.val)
               /\ progress_rx' = NoneOpt /\ results_rx' = NoneOpt
       /\ Cardinality(InFlight') <= 1
       /\ ~is_analyzing' => InFlight' = {}]_vars

\* two runs have been started and completed one after the other
C10_Witness ==
    /\ runs_started = 2
    /\ ~is_analyzing
    /\ app_results = Some(2)
    /\ threads = [r \in Runs |-> "finished"]
    /\ progress_rx = NoneOpt /\ results_rx = NoneOpt

----------------------------------------------------------------------------
(* Properties of the scan grid and of the cells without usable sequences *)

\* the window starts that leave room for a window of length len: the
\* multiples of resolution up to alignment_length - len
GridPositions(len) ==
    {q \in 0..alignment_length(data) :
        q % params.resolution = 0 /\ q <= alignment_length(data) - len}

\* C11 (as claimed): a finished sliding-window run holds exactly one
\* LengthResult for each oligo length in [min_oligo_length,
\* max_oligo_length], keyed by that length, and its cells are exactly the
\* multiples of resolution up to alignment_length - length, each once; so a
\* length longer than the alignment has no cell.
C11_SlidingWindowGrid ==
    (spc = "done" /\ params.mode = "ScreenAlignment") =>
        /\ DOMAIN results.results_by_length =
               params.min_oligo_length..params.max_oligo_length
        /\ \A len \in DOMAIN results.results_by_length :
               LET r == results.results_by_length[len]
               IN  /\ r.oligo_length = len
                   /\ {r.positions[i].position : i \in 1..Len(r.positions)} =
                          GridPositions(len)
                   /\ Len(r.positions) = Cardinality(GridPositions(len))

\* the sequences of data with a window [pos, pos + len) of standard bases
UsableAt(len, pos) ==
    {i \in 1..Len(data) :
        /\ pos + len <= Len(data[i])
        /\ \A k \in pos + 1..pos + len : data[i][k] \in {"A", "C", "G", "T"}}

\* the cells of the finished run: length, position and analysis
Cells ==
    UNION {{[len |-> len, cell |-> results.results_by_length[len].positions[i]]
               : i \in 1..Len(results.results_by_length[len].positions)}
              : len \in DOMAIN results.results_by_length}

\* C12: in a finished run of either mode every scanned cell has a result,
\* and a cell no sequence has a usable window for is skipped, with a reason
\* and no variants.
C12_ZeroUsableIsSkip ==
    spc = "done" =>
        /\ \A len \in DOMAIN results.results_by_length :
              {c.cell.position : c \in {d \in Cells : d.len = len}} =
                  IF params.mode = "ScreenAlignment"
                  THEN ScannedPositions(len) ELSE {0}
        /\ IF params.mode = "ScreenAlignment"
           THEN DOMAIN results.results_by_length =
                    params.min_oligo_length..params.max_oligo_length
           ELSE DOMAIN results.results_by_length = {alignment_length(data)}
        /\ \A c \in Cells :
              UsableAt(c.len, c.cell.position) = {} =>
                  /\ c.cell.analysis.skipped
                  /\ c.cell.analysis.skip_reason # "None"
                  /\ c.cell.analysis.variants = <<>>

\* a sliding-window run over one sequence with a gap in its first column
\* has ended: the cell at position 0 is skipped, the one at position 1 is
\* analyzed
C12_Witness ==
    /\ spc = "done"
    /\ params.mode = "ScreenAlignment"
    /\ data = <<GappedSeq(2)>>
    /\ params.min_oligo_length = 1
    /\ params.resolution = 1
    /\ UsableAt(1, 0) = {}
    /\ results.results_by_length[1].positions[1].analysis.skipped
    /\ ~results.results_by_length[1].positions[2].analysis.skipped
    /\ Len(results.results_by_length[1].positions[2].analysis.variants) = 1

\* the sequences of data made of standard bases only
Survivors ==
    {i \in 1..Len(data) : \A k \in 1..Len(data[i]) : data[i][k] \in {"A", "C", "G", "T"}}

\* C13: a finished single-region run holds exactly one LengthResult, keyed
\* by the alignment length, with exactly one PositionResult, at position 0;
\* its total_sequences is the number of input sequences, its
\* sequences_analyzed the number of sequences made of A, C, G, T only, and
\* the sequences analyzed (those the variants count) are exactly these.
C13_SingleRegion ==
    (spc = "done" /\ params.mode = "SingleOligoRegion") =>
        /\ DOMAIN results.results_by_length = {alignment_length(data)}
        /\ LET r == results.results_by_length[alignment_length(data)]
           IN  /\ r.oligo_length = alignment_length(data)
               /\ Len(r.positions) = 1
               /\ r.positions[1].position = 0
               /\ r.positions[1].analysis.total_sequences = Len(data)
               /\ r.positions[1].analysis.sequences_analyzed = Cardinality(Survivors)
               /\ LET vs == r.positions[1].analysis.variants
                  IN  /\ {vs[j].sequence : j \in 1..Len(vs)} = {data[i] : i \in Survivors}
                      /\ \A j \in 1..Len(vs) :
                            vs[j].count =
                                Cardinality({i \in Survivors : data[i] = vs[j].sequence})
                      /\ Len(vs) = Cardinality({data[i] : i \in Survivors})

\* a single-region run over a clean sequence and one with an ambiguity code
\* has ended: one of the two sequences was analyzed
C13_Witness ==
    /\ spc = "done"
    /\ params.mode = "SingleOligoRegion"
    /\ data = <<<<"A", "C">>, <<"A", "N">>>>
    /\ results.results_by_length[2].positions[1].analysis.total_sequences = 2
    /\ results.results_by_length[2].positions[1].analysis.sequences_analyzed = 1
    /\ ~results.results_by_length[2].positions[1].analysis.skipped

----------------------------------------------------------------------------
(* Properties of the position map *)

\* the template positions of the window [start, start + length)
WindowPositions == template_start..template_start + window_length - 1

\* a template position the window cannot be read at
Unreadable(t) ==
    \/ t >= Len(position_map.template_to_target)
    \/ ~position_map.template_to_target[t + 1].some
    \/ position_map.template_to_target[t + 1].val >= Len(target_seq)

\* C14: extract_window returns None if a template position of the window
\* lies past the template end, maps to None or maps outside the target;
\* otherwise it returns the string of exactly window_length characters
\* whose k-th character is the target base the k-th position maps to.
C14_ExtractRejectsIndels ==
    mpc = "extracted" =>
        IF \E t \in WindowPositions : Unreadable(t)
        THEN ~extracted.some
        ELSE /\ extracted.some
             /\ Len(extracted.val) = window_length
             /\ \A k \in 1..window_length :
                   extracted.val[k] =
                       target_seq[position_map.template_to_target[
                                      template_start + k].val + 1]

\* a window of two positions was refused because its second position is a
\* deletion, although its first position maps into the target
C14_Witness ==
    /\ mpc = "extracted"
    /\ template_len = 2
    /\ template_start = 0
    /\ window_length = 2
    /\ position_map.template_to_target[1].some
    /\ position_map.template_to_target[1].val < Len(target_seq)
    /\ ~position_map.template_to_target[2].some
    /\ alignment.operations = <<Operation("Match", 0), Operation("Del", 0)>>
    /\ ~extracted.some

\* what an operation consumes of the target and of the template
TargetAdvance(o) ==
    IF o.op \in {"Match", "Subst", "Ins"} THEN 1
    ELSE IF o.op = "Xclip" THEN o.len ELSE 0

TemplateAdvance(o) ==
    IF o.op \in {"Match", "Subst", "Del"} THEN 1
    ELSE IF o.op = "Yclip" THEN o.len ELSE 0

RECURSIVE TargetIndex(_)
\* the target index the k-th operation of the alignment is applied at
TargetIndex(k) ==
    IF k = 1 THEN alignment.xstart
    ELSE TargetIndex(k - 1) + TargetAdvance(alignment.operations[k - 1])

RECURSIVE TemplateIndex(_)
\* the template index the k-th operation of the alignment is applied at
TemplateIndex(k) ==
    IF k = 1 THEN alignment.ystart
    ELSE TemplateIndex(k - 1) + TemplateAdvance(alignment.operations[k - 1])

\* the Match / Subst operations among the first n that are applied at
\* template index i
RecordedAt(i, n) ==
    {k \in 1..n : /\ alignment.operations[k].op \in {"Match", "Subst"}
                  /\ TemplateIndex(k) = i}

\* C15: while and after the operations are walked, template_to_target has
\* exactly template_len entries; the entry of template index i is Some(j)
\* if a Match or Subst walked so far was applied at template index i and
\* target index j, and None otherwise (a Del, a clip or nothing was applied
\* there); the two indices have advanced by what the operations walked so
\* far consume: Match and Subst one of each, Del one of the template, Ins
\* one of the target, a clip its length of its own sequence.
C15_PositionMapConstruction ==
    mpc \in {"ops", "built", "extracted"} =>
        /\ Len(position_map.template_to_target) = template_len
        /\ x_pos = TargetIndex(op_idx + 1)
        /\ y_pos = TemplateIndex(op_idx + 1)
        /\ \A i \in 0..template_len - 1 :
              position_map.template_to_target[i + 1] =
                  IF RecordedAt(i, op_idx) = {} THEN NoneOpt
                  ELSE Some(TargetIndex(CHOOSE k \in RecordedAt(i, op_idx) : TRUE))

\* a map was built from an insertion, a match and a deletion: the match is
\* recorded at the target index after the insertion, the deletion as None
C15_Witness ==
    /\ mpc = "built"
    /\ template_len = 2
    /\ alignment.xstart = 1
    /\ alignment.operations =
           <<Operation("Ins", 0), Operation("Match", 0), Operation("Del", 0)>>
    /\ position_map.template_to_target = <<Some(2), NoneOpt>>
    /\ x_pos = 3
    /\ y_pos = 2

\* from_alignment was called for a target identical to the template:
\* template_len Match operations from (0, 0), scored template_len * match_score
IdentityCall == alignment = IdentityAlignment(template_len, scoring.match_score)

\* the identity mapping with its score
IdentityMapped ==
    /\ position_map.template_to_target = [i \in 1..template_len |-> Some(i - 1)]
    /\ position_map.score = template_len * scoring.match_score

\* C16 (as claimed): the PositionMap of a target identical to the template
\* is the identity mapping, its score is template_len * match_score, and it
\* is valid for every min_score_fraction <= 1.0.
C16_IdentityMapAlwaysValid ==
    (mpc = "built" /\ IdentityCall /\ scoring.min_score_fraction <= 10) =>
        /\ IdentityMapped
        /\ position_map.is_valid

\* C16 (amended): the PositionMap of a target identical to the template is
\* the identity mapping and its score is template_len * match_score; it is
\* valid for every min_score_fraction <= 1.0 when template_len * match_score
\* is positive, and only for min_score_fraction <= 0 when it is not.
C16_IdentityMap ==
    (mpc = "built" /\ IdentityCall /\ scoring.min_score_fraction <= 10) =>
        /\ IdentityMapped
        /\ position_map.is_valid =
              (\/ template_len * scoring.match_score > 0
               \/ scoring.min_score_fraction <= 0)

\* the map of a two-base template identical to its target was built with
\* match_score 2 and min_score_fraction 1.0: it is the identity and valid
C16_Witness ==
    /\ mpc = "built"
    /\ IdentityCall
    /\ template_len = 2
    /\ scoring = [match_score |-> 2, min_score_fraction |-> 10]
    /\ position_map.template_to_target = <<Some(0), Some(1)>>
    /\ position_map.score = 4
    /\ position_map.is_valid

----------------------------------------------------------------------------
(* Properties of the oligo matching *)

\* the reference the loop of collect_matches is at
CurrentReference == references[ref_idx + 1]

\* the rejection criteria, read off the alignment
Rejected ==
    \/ \E i \in 1..Len(local_alignment.operations) :
          local_alignment.operations[i].op \in {"Ins", "Del"}
    \/ local_alignment.xend - local_alignment.xstart # Len(oligo)
    \/ Cardinality({i \in 1..Len(local_alignment.operations) :
                       local_alignment.operations[i].op = "Subst"}) > max_mismatches

\* the text of the reference bytes [ystart, yend)
ReferenceSlice ==
    [i \in 1..(local_alignment.yend - local_alignment.ystart) |->
        IF CurrentReference[local_alignment.ystart + i] = "0xFF" THEN "U+FFFD"
        ELSE CurrentReference[local_alignment.ystart + i]]

\* C17: collect_matches counts a reference as no match if its local
\* alignment has an Ins or Del operation, or xend - xstart differs from the
\* oligo length, or it has more Subst operations than max_mismatches;
\* otherwise it appends the reference slice [ystart, yend) to the matched
\* sequences and counts nothing.
C17_MatchClassification ==
    [][mtc = "aligned" =>
          IF Rejected
          THEN no_match_count' = no_match_count + 1 /\ matched' = matched
          ELSE /\ matched' = Append(matched, ReferenceSlice)
               /\ no_match_count' = no_match_count]_vars

C17_Witness ==
    /\ mtc = "done"
    /\ no_match_count = 1
    /\ Len(matched) = 1
    /\ matched[1] = <<"U+FFFD", "C">>
    /\ oligo = <<"A", "C">>
    /\ max_mismatches = 1

----------------------------------------------------------------------------
(* Properties of the exact method *)

\* find_variants_no_ambiguities has returned for a non-empty input list
ExactDone ==
    /\ cpc = "done"
    /\ method.kind = "NoAmbiguities"
    /\ TotalOf(sequences) > 0

\* C18: for a non-empty input list find_variants_no_ambiguities returns
\* exactly one variant per distinct input sequence, its count the
\* multiplicity of that sequence; the counts do not increase along the list
\* and sum to the input length; percentage = count / total * 100; no variant
\* holds a code that the input does not hold at that position.
C18_ExactMethod ==
    ExactDone =>
        /\ \A w \in InputWindows :
              Cardinality({i \in 1..Len(variants) : variants[i].sequence = w})
                  = IF sequences[w] > 0 THEN 1 ELSE 0
        /\ \A i \in 1..Len(variants) :
              /\ variants[i].sequence \in InputWindows
              /\ variants[i].count = sequences[variants[i].sequence]
              /\ variants[i].percentage.num * TotalOf(sequences)
                     = 100 * variants[i].count * variants[i].percentage.den
              /\ \A pos \in 1..Len(variants[i].sequence) :
                    \E w \in InputWindows :
                        /\ sequences[w] > 0
                        /\ w[pos] = variants[i].sequence[pos]
        /\ \A i \in 1..(Len(variants) - 1) :
              variants[i].count >= variants[i + 1].count
        /\ SumVariantCounts(variants) = TotalOf(sequences)

C18_Witness ==
    /\ ExactDone
    /\ Len(variants) >= 2
    /\ variants[1].count > variants[2].count

----------------------------------------------------------------------------
(* Properties of the threshold coverage *)

RECURSIVE PrefixSum(_)
\* the numerators of the first k percentages of th_variants, summed; the
\* percentages share the denominator th_total
PrefixSum(k) ==
    IF k = 0 THEN 0 ELSE PrefixSum(k - 1) + th_variants[k].percentage.num

\* the non-empty prefixes whose summed percentage is at least the threshold
ReachingPrefixes ==
    {k \in 1..Len(th_variants) : PrefixSum(k) >= th_threshold * th_total}

\* the shortest of them, or the whole list when there is none
ExpectedNeeded ==
    IF ReachingPrefixes = {} THEN Len(th_variants)
    ELSE CHOOSE k \in ReachingPrefixes : \A j \in ReachingPrefixes : k <= j

\* the counts of th_variants, in order
VariantCounts == [k \in 1..Len(th_variants) |-> th_variants[k].count]

\* C19: calculate_variants_for_threshold returns the length of the shortest
\* prefix whose summed percentage is at least the threshold, with that sum;
\* when no prefix reaches the threshold, the length of the list and the sum
\* of all percentages; percentages 50, 30, 20 and threshold 80 give (2, 80).
C19_ThresholdCoverage ==
    th_result.some =>
        /\ th_result.needed = ExpectedNeeded
        /\ th_result.coverage.num * th_total
               = PrefixSum(ExpectedNeeded) * th_result.coverage.den
        /\ (VariantCounts = <<5, 3, 2>> /\ th_total = 10 /\ th_threshold = 80) =>
               /\ th_result.needed = 2
               /\ th_result.coverage.num = 80 * th_result.coverage.den

C19_Witness ==
    /\ th_result.some
    /\ VariantCounts = <<5, 3, 2>>
    /\ th_threshold = 80
    /\ th_result.needed = 2

----------------------------------------------------------------------------
(* Properties of the bitmask alphabet *)

\* bit 0 = A, bit 1 = C, bit 2 = G, bit 3 = T
BitOfBase == [b \in {"A", "C", "G", "T"} |->
                 IF b = "A" THEN 0 ELSE IF b = "C" THEN 1
                 ELSE IF b = "G" THEN 2 ELSE 3]

\* C20: for each of the 15 IUPAC bytes IUPAC_FROM_MASK[base_to_bit(b)] = b;
\* the mask of a base is its bit (A 0, C 1, G 2, T 3), the mask of an
\* ambiguity code has exactly the bits of the bases it stands for, and every
\* other byte has mask 0.
C20_AlphabetRoundTrip ==
    /\ (rt_code.some /\ rt_byte \in IupacCodes) => rt_code.val = rt_byte
    /\ (rt_mask.some /\ rt_byte \in IupacCodes) =>
           Bits(rt_mask.val) = {BitOfBase[b] : b \in IUPAC_TO_BASES[rt_byte]}
    /\ (rt_mask.some /\ rt_byte \in {"A", "C", "G", "T"}) =>
           rt_mask.val = 2 ^ BitOfBase[rt_byte]
    /\ (rt_mask.some /\ rt_byte \notin IupacCodes) => rt_mask.val = 0

C20_Witness ==
    /\ rt_code.some
    /\ rt_byte = "K"
    /\ rt_mask.val = 12
    /\ rt_code.val = "K"

----------------------------------------------------------------------------
(* Properties of the consensus matchers *)

\* the masks of the bytes at position i share a bit
SharesBit(i) ==
    Bits(base_to_bit(mt_seq[i])) \cap Bits(base_to_bit(mt_consensus[i])) # {}

\* C21: sequence_matches_consensus_bytes(seq, pattern) is true if and only
\* if seq and pattern have equal length and the masks of seq[i] and
\* pattern[i] share a bit at every position i; with unequal lengths it is
\* false.
C21_PatternMatching ==
    mt_bytes.some =>
        /\ mt_bytes.val = (/\ Len(mt_seq) = Len(mt_consensus)
                           /\ \A i \in 1..Len(mt_seq) : SharesBit(i))
        /\ Len(mt_seq) # Len(mt_consensus) => ~mt_bytes.val

C21_Witness ==
    /\ mt_bytes.some
    /\ mt_bytes.val
    /\ mt_seq = <<"A", "T">>
    /\ mt_consensus = <<"R", "Y">>

\* the consensus is made of the 15 IUPAC codes
IupacConsensus == \A i \in 1..Len(mt_consensus) : mt_consensus[i] \in IupacCodes

\* C22: for every seq and every consensus made of the 15 IUPAC codes,
\* sequence_matches_consensus_bytes(seq, consensus) returns what
\* sequence_matches_consensus(seq, consensus) returns.
C22_MatchersEquivalent ==
    (mt_bytes.some /\ mt_hashset.some /\ IupacConsensus) =>
        mt_bytes.val = mt_hashset.val

----------------------------------------------------------------------------
(* Properties of one step of the incremental method *)

\* target_count of the step
StepTarget == TargetCount(method.target_pct, TotalOf(remaining))

\* the ambiguity levels of the step
StepLevels ==
    0..(IF method.max_amb.some THEN method.max_amb.val
        ELSE Len(unique_remaining[1]))

\* the (up to 50) most frequent seeds of the step
StepSeeds ==
    {s \in Keys(remaining) :
        Cardinality({t \in Keys(remaining) :
            \/ remaining[t] > remaining[s]
            \/ /\ remaining[t] = remaining[s]
               /\ \E i, j \in 1..Len(unique_remaining) :
                     /\ i < j
                     /\ unique_remaining[i] = t
                     /\ unique_remaining[j] = s}) < SeedLimit}

\* the valid candidates the seeds give at one level
CandidatesAt(level) ==
    {c \in {IncrementalCandidate(s, unique_remaining, remaining, level,
                                 exclude_n) : s \in StepSeeds} : c.valid}

\* the valid candidates of the step, by level
CandidateTable == [l \in StepLevels |-> CandidatesAt(l)]

\* the levels at which some candidate reaches the target
ReachingLevels(table) ==
    {l \in DOMAIN table :
        \E c \in table[l] : c.coverage_count >= StepTarget}

\* the candidates of highest coverage in a set of candidates
HighestCoverage(C) ==
    {c \in C : \A e \in C : e.coverage_count <= c.coverage_count}

\* what the step may return
StepChoices(table) ==
    IF ReachingLevels(table) # {}
    THEN HighestCoverage(table[
             CHOOSE l \in ReachingLevels(table) :
                 \A m \in ReachingLevels(table) : l <= m])
    ELSE HighestCoverage(UNION {table[l] : l \in DOMAIN table})

----------------------------------------------------------------------------
(* Properties of the greedy cover as a whole *)

RECURSIVE GreedyCountsFrom(_)
\* the counts of the variants the greedy cover returns for the windows unc
\* still uncovered, when every round iterates in the order ListOf gives
GreedyCountsFrom(unc) ==
    IF unc = {} THEN <<>>
    ELSE LET best == find_best_consensus(ListOf(unc), sequences,
                                         method.max_amb.val, exclude_n)
         IN  IF best.coverage = {}
             THEN LET most_freq == MaxByCount(ListOf(unc), sequences)
                  IN  <<sequences[most_freq]>>
                          \o GreedyCountsFrom(unc \ {most_freq})
             ELSE <<SumCounts(best.coverage, sequences)>>
                      \o GreedyCountsFrom(unc \ best.coverage)

\* C27: for a fixed multiset of windows, max_ambiguities and exclude_n, the
\* number of variants find_minimum_variants_greedy returns and their counts
\* are the same for every iteration order of the uncovered set.
C27_GreedyOrderIndependent ==
    (cpc = "done" /\ method.kind = "FixedAmbiguities") =>
        [i \in 1..Len(variants) |-> variants[i].count]
            = GreedyCountsFrom(Keys(sequences))

----------------------------------------------------------------------------
(* Properties of the cover loops *)

\* one of the two cover loops is the method
CoverLoop == method.kind \in {"FixedAmbiguities", "Incremental"}

\* a round of either loop removes at least one window from the set the
\* loop runs on
RoundRemoves ==
    /\ (cpc = "greedy" /\ uncovered # {}) =>
          (uncovered' \subseteq uncovered /\ uncovered' # uncovered)
    /\ (cpc = "consensus") =>
          (/\ Keys(remaining') \subseteq Keys(remaining)
           /\ Keys(remaining') # Keys(remaining)
           /\ \A w \in InputWindows : remaining'[w] <= remaining[w])

\* C25: find_minimum_variants_greedy and find_incremental_variants
\* terminate on every finite list of equal-length A/C/G/T windows: each
\* round of either loop removes at least one window from the set the loop
\* runs on; every variant has count >= 1 and there are at most as many
\* variants as distinct input windows.
C25_CoverLoopsTerminate ==
    /\ [](CoverLoop =>
             /\ \A i \in 1..Len(variants) : variants[i].count >= 1
             /\ Len(variants) <= Cardinality(Keys(sequences)))
    /\ [][RoundRemoves]_vars

\* a cover loop has returned as many variants as there are distinct windows
C25_Witness ==
    /\ CoverLoop
    /\ cpc = "done"
    /\ Cardinality(Keys(sequences)) >= 3
    /\ Len(variants) = Cardinality(Keys(sequences))

\* every window handed to the finders is a non-empty string over A, C, G, T
ValidWindows ==
    \A w \in Keys(sequences) :
        Len(w) > 0 /\ \A i \in 1..Len(w) : w[i] \in {"A", "C", "G", "T"}

\* windows that are empty or hold a byte outside A, C, G, T and the codes
OtherWindows == {<<>>, <<"-", "A">>, <<"A", "X">>}

\* whether the finder of the configured method falls back when it is
\* called on the single window w (a target_count of 0 is reached by a
\* candidate that covers nothing, so it is left out)
FallsBackOn(w) ==
    /\ (method.kind = "FixedAmbiguities") =>
          find_best_consensus(<<w>>, [x \in {w} |-> 1], method.max_amb.val, exclude_n).coverage = {}
    /\ (method.kind = "Incremental" /\ method.target_pct > 0) =>
          find_incremental_consensus(<<w>>, [x \in {w} |-> 1],
              TargetCount(method.target_pct, 1), exclude_n, method.max_amb).fallback

\* C26: when every window is a non-empty string over A/C/G/T the 'most
\* frequent remaining sequence' fallback of find_minimum_variants_greedy
\* and of find_incremental_consensus is never taken; with the same
\* parameters an empty window and a window with another byte do take it.
C26_FallbackDead ==
    /\ ValidWindows => ~fallback_taken
    /\ (cpc = "input") => \A w \in OtherWindows : FallsBackOn(w)

\* both loops ran several rounds on valid windows
C26_Witness ==
    /\ CoverLoop
    /\ cpc = "done"
    /\ ValidWindows
    /\ Len(variants) >= 2
    /\ ~fallback_taken

----------------------------------------------------------------------------
(* Properties of align_all_sequences *)

\* score / (template_len * match_score) >= min_score_fraction in tenths,
\* the fraction being 0 when template_len * match_score <= 0
FractionReached(score) ==
    \/ /\ al_template_len * al_scoring.match_score > 0
       /\ score * 10 >= al_scoring.min_score_fraction * al_template_len * al_scoring.match_score
    \/ /\ al_template_len * al_scoring.match_score <= 0
       /\ 0 >= al_scoring.min_score_fraction

\* C24: align_all_sequences returns exactly one PositionMap per target
\* sequence, in input order, the invalid ones included; is_valid holds
\* exactly when score / (template_len * match_score) >= min_score_fraction
\* (the fraction taken as 0 when template_len * match_score <= 0), and
\* valid_count is the number of maps with is_valid = true.
C24_AlignmentRetention ==
    al_results.some =>
        /\ Len(al_results.position_maps) = Len(al_sequence_set)
        /\ al_results.target_sequences = al_sequence_set
        /\ \A i \in 1..Len(al_sequence_set) :
              /\ al_results.position_maps[i].score = al_alignments[i].score
              /\ al_results.position_maps[i].is_valid
                    <=> FractionReached(al_alignments[i].score)
        /\ al_results.valid_count =
              Cardinality({i \in 1..Len(al_results.position_maps) :
                              al_results.position_maps[i].is_valid})

\* two targets aligned, the second closure finishing first; the first map
\* is invalid and kept, the second is valid
C24_Witness ==
    /\ al_results.some
    /\ Len(al_sequence_set) = 2
    /\ al_items[2].done = 1
    /\ ~al_results.position_maps[1].is_valid
    /\ al_results.position_maps[2].is_valid
    /\ al_results.valid_count = 1

----------------------------------------------------------------------------
(* Properties of recalculate_coverage_threshold *)

\* the cells that are skipped are the same before and after a step
SkippedUnchanged ==
    \A i \in 1..Len(rv_positions) :
        rv_positions[i].analysis.skipped => rv_positions'[i] = rv_positions[i]

\* C28: after a screening and any number of recalculate_coverage_threshold
\* calls with any thresholds, each PositionResult has variants_needed =
\* analysis.variants_for_threshold, every non-skipped cell has
\* (variants_for_threshold, coverage_at_threshold) =
\* calculate_variants_for_threshold(variants, threshold last applied), and
\* skipped cells are left unchanged.
C28_VariantsNeededInSync ==
    /\ [](\A i \in 1..Len(rv_positions) :
            LET pr == rv_positions[i]
            IN  /\ pr.variants_needed = pr.analysis.variants_for_threshold
                /\ ~pr.analysis.skipped =>
                      [needed |-> pr.analysis.variants_for_threshold,
                       coverage |-> pr.analysis.coverage_at_threshold]
                        = calculate_variants_for_threshold(
                              pr.analysis.variants,
                              pr.analysis.sequences_analyzed, rv_applied))
    /\ [][SkippedUnchanged]_vars

\* a threshold of 50 was applied to a cell with three variants next to a
\* skipped cell, and the threshold was dragged on afterwards
C28_Witness ==
    /\ rv_applied = 50
    /\ rv_threshold = 100
    /\ Len(rv_positions) = 2
    /\ Len(rv_positions[1].analysis.variants) = 3
    /\ rv_positions[1].variants_needed = 1
    /\ rv_positions[2].analysis.skipped

----------------------------------------------------------------------------
(* Properties of the order of the progress messages *)

\* C29: within one oligo length the progress messages reach the consumer
\* in increasing order of their completion count, so that the last message
\* received for a finished length reports completed = total_positions,
\* under every interleaving of the workers' fetch_add and send steps.
C29_ProgressOrder ==
    params.mode = "ScreenAlignment" =>
        /\ \A j, k \in 1..Len(received) :
              (j < k /\ received[j].current_length = received[k].current_length)
                  => CompletedOf(received[j]) < CompletedOf(received[k])
        /\ (spc = "done" /\ Len(channel) = 0 /\ Len(received) > 0) =>
              CompletedOf(received[Len(received)])
                  = received[Len(received)].total_positions

----------------------------------------------------------------------------
(* Properties of the end of a run *)

\* C30: after start_analysis, repeated calls of check_analysis_progress
\* eventually set is_analyzing = false, whether the worker thread sends its
\* ScreeningResults or ends without sending; the application is never left
\* analyzing forever.
C30_RunEnds == is_analyzing ~> ~is_analyzing

====
